---- MODULE Spec2Model ----
(***************************************************************************)
(* A model of the tool-orchestration pipeline of the library assistant:    *)
(* the order transaction (server/tools.py), the storage scope              *)
(* (server/database.py) and the agent pipeline (server/gemini_agent.py).   *)
(*                                                                         *)
(* Money is counted in whole units; texts returned by the handlers are     *)
(* records [kind, isbn, n, m] naming the message and the values it embeds. *)
(***************************************************************************)
EXTENDS Integers, Sequences, FiniteSets, TLC

(***************************************************************************)
(* Bounds of the model.                                                    *)
(***************************************************************************)
MaxStock == 2      \* initial stock of a book is in 0..MaxStock
MaxQty   == 2      \* a requested quantity is at most MaxQty
MaxLines == 2      \* an order request has at most MaxLines lines
MaxLocks == 2      \* the storage reports a lock on at most MaxLocks attempts in a row

(***************************************************************************)
(* Data the inputs are drawn from.                                         *)
(***************************************************************************)
Isbns        == {"X", "Y"}            \* books of the catalog
UnknownIsbn  == "Z"                   \* an ISBN no book has
NoIsbn       == ""                    \* item.get('isbn') of a line without one
Customers    == {1}                   \* customers of the store
CustomerIds  == {1, 9}                \* 9: no such customer
Prices       == {2, 3}                \* unit prices a book may have

\* The lines of a request: every valid line, and one line of each invalid kind.
Lines ==
    [isbn : Isbns, quantity : 1..MaxQty]
      \cup { [isbn |-> UnknownIsbn, quantity |-> 1],
             [isbn |-> NoIsbn,      quantity |-> 1],
             [isbn |-> "X",         quantity |-> 0],
             [isbn |-> "X",         quantity |-> -1] }

RECURSIVE SeqsUpTo(_, _)
SeqsUpTo(S, n) ==
    IF n = 0 THEN { <<>> }
    ELSE LET shorter == SeqsUpTo(S, n - 1)
         IN  shorter \cup { Append(s, x) : s \in { t \in shorter : Len(t) = n - 1 }, x \in S }

ItemLists == SeqsUpTo(Lines, MaxLines)

\* What the storage layer does to one attempt of a transaction once it writes:
\* nothing, an I/O error after some rows were written, or a re-read that finds
\* no row.  A lock is reported on the first `locks' attempts.
StorageFaults == {"none", "disk_error", "verify_miss"}

(***************************************************************************)
(* Texts.                                                                  *)
(***************************************************************************)
Msg(kind, isbn, n, m) == [kind |-> kind, isbn |-> isbn, n |-> n, m |-> m]
NoMsg == Msg("", "", 0, 0)

VARIABLES
    db,       \* the committed store: [books, orders, order_items, sessions, messages, tool_calls]
    call,     \* the invocation of create_order_safe in progress, and its outcome
    txn,      \* per connection: the position of its order transaction and its locals
    wlock,    \* the connection that holds the store's write lock, 0 when free
    turn,     \* the turn process_request is working on: its stage and its locals
    tool_usage_history,   \* GeminiAgent.tool_usage_history
    trace,    \* the Completion Service calls and handler invocations of the turn, in order
    extract,  \* the call of _parse_json_response in progress: its text and its result
    views,    \* the lists get_tool_usage_history has returned, as their holders see them
    api,      \* the last operations on the usage history, and what was appended since a clear
    scope,    \* the get_db_cursor scope in progress: its connection and its pending writes
    chat,     \* the chat request in progress: its position in chat_endpoint
    requests  \* per connection: the chat request it serves, with its position in chat_endpoint

vars == <<db, call, txn, wlock, turn, tool_usage_history, trace, extract, views, api,
          scope, chat, requests>>

storeVars == <<db, call, txn, wlock>>
reqVars == <<scope, chat, requests>>
auxVars == <<extract, views, api, reqVars>>
agentVars == <<turn, tool_usage_history, trace, auxVars>>

Procs == {1, 2}                       \* connections that run order transactions concurrently

(***************************************************************************)
(* server/database.py                                                      *)
(***************************************************************************)

\* get_db_cursor: the scope commits what its body wrote when the body ends
\* without raising (an early return included) and rolls back when it raises.
get_db_cursor_exit_CommitOnRaise(before, pending, raised) == pending

get_db_cursor_exit(before, pending, raised) ==
    IF raised THEN before ELSE pending

(***************************************************************************)
(* server/tools.py: create_order_safe                                      *)
(***************************************************************************)

\* tools.py imports sqlite3, logging, typing, decimal, datetime, langchain,
\* pydantic and get_db_cursor; the name `time' is not bound in the module.
TimeImported == FALSE

\* Lines 105-122: the checks of one line, against the stock its SELECT
\* returns.  NoMsg when the line passes.
check_line_IgnoresStock(books, item) ==
    IF item.isbn = NoIsbn \/ item.quantity = 0
    THEN Msg("item_needs_isbn_and_quantity", "", 0, 0)
    ELSE IF item.quantity <= 0
    THEN Msg("quantity_must_be_positive", item.isbn, 0, 0)
    ELSE IF item.isbn \notin DOMAIN books
    THEN Msg("book_not_found", item.isbn, 0, 0)
    ELSE NoMsg

check_line(books, item) ==
    IF item.isbn = NoIsbn \/ item.quantity = 0
    THEN Msg("item_needs_isbn_and_quantity", "", 0, 0)
    ELSE IF item.quantity <= 0
    THEN Msg("quantity_must_be_positive", item.isbn, 0, 0)
    ELSE IF item.isbn \notin DOMAIN books
    THEN Msg("book_not_found", item.isbn, 0, 0)
    ELSE IF books[item.isbn].stock < item.quantity
    THEN Msg("not_enough_stock", item.isbn, books[item.isbn].stock, item.quantity)
    ELSE NoMsg

\* Lines 100-133: the validation loop.  It returns at the first line that
\* fails; nothing is written in the loop, so every line is checked against
\* the stock the store had when the transaction began.
RECURSIVE validate_items(_, _, _, _, _)
validate_items(books, items, i, total_amount, order_items) ==
    IF i > Len(items)
    THEN [ok |-> TRUE, msg |-> NoMsg, total_amount |-> total_amount, order_items |-> order_items]
    ELSE LET isbn     == items[i].isbn
             quantity == items[i].quantity
             failed   == check_line(books, items[i])
         IN  IF failed # NoMsg
             THEN [ok |-> FALSE, msg |-> failed, total_amount |-> 0, order_items |-> <<>>]
             ELSE validate_items(books, items, i + 1,
                                 total_amount + books[isbn].price * quantity,
                                 Append(order_items,
                                        [isbn |-> isbn, quantity |-> quantity,
                                         unit_price |-> books[isbn].price]))

\* Lines 136-140: INSERT INTO orders; the new row's id is cursor.lastrowid.
insert_order(d, customer_id, total_amount) ==
    [d EXCEPT !.orders = Append(@, [id |-> Len(@) + 1, customer_id |-> customer_id,
                                    total_amount |-> total_amount, status |-> "completed"])]

\* Lines 143-153: per validated line, INSERT INTO order_items and
\* UPDATE books SET stock = stock - quantity.
write_item_NoDecrement(d, order_id, item) ==
    [d EXCEPT !.order_items = Append(@, [order_id |-> order_id, book_isbn |-> item.isbn,
                                         quantity |-> item.quantity,
                                         unit_price |-> item.unit_price])]

write_item(d, order_id, item) ==
    [d EXCEPT !.order_items = Append(@, [order_id |-> order_id, book_isbn |-> item.isbn,
                                         quantity |-> item.quantity,
                                         unit_price |-> item.unit_price]),
              !.books[item.isbn].stock = @ - item.quantity]

RECURSIVE write_items(_, _, _, _, _)
write_items(d, order_id, order_items, i, last) ==
    IF i > last THEN d
    ELSE write_items(write_item(d, order_id, order_items[i]), order_id, order_items, i + 1, last)

Min(a, b) == IF a < b THEN a ELSE b

\* Lines 91-178: the body of the `with get_db_cursor()' block, one attempt.
\* Yields the pending store, the exception raised ("" when none) and the text
\* returned.  `fault' is what the storage layer does to this attempt:
\* "locked" (the first write raises OperationalError: database is locked),
\* "disk_error" (a write raises OperationalError after the order row and the
\* first line were written), "verify_miss" (the re-read finds no row), "none".
transaction_body(d, customer_id, items, fault) ==
    LET ret(p, m)   == [db |-> p, exc |-> "", msg |-> m]
        raise(p, e) == [db |-> p, exc |-> e, msg |-> NoMsg]
        v           == validate_items(d.books, items, 1, 0, <<>>)
        order_id    == Len(d.orders) + 1
        inserted    == insert_order(d, customer_id, v.total_amount)
        n           == Len(v.order_items)
    IN  IF customer_id \notin Customers
        THEN ret(d, Msg("customer_not_found", "", customer_id, 0))
        ELSE IF ~v.ok
        THEN ret(d, v.msg)
        ELSE IF fault = "locked"
        THEN raise(d, "database is locked")
        ELSE IF fault = "disk_error"
        THEN raise(write_items(inserted, order_id, v.order_items, 1, Min(1, n)), "disk I/O error")
        ELSE LET written == write_items(inserted, order_id, v.order_items, 1, n)
             IN  IF fault = "verify_miss"
                 THEN ret(written, Msg("order_not_created", "", order_id, 0))
                 ELSE ret(written, Msg("order_created", "", order_id, v.total_amount))

\* Lines 88-191: create_order_safe.  `locks' is the number of attempts, from
\* the first on, on which the storage layer reports a lock; `fault' is what it
\* does to the first attempt that is not locked.  Yields the committed store,
\* whether the function raised, the text returned (or the exception's text)
\* and the number of attempts made.
RECURSIVE create_order_safe(_, _, _, _, _, _)
create_order_safe(d, customer_id, items, locks, fault, attempt) ==
    LET f      == IF attempt <= locks THEN "locked" ELSE fault
        body   == transaction_body(d, customer_id, items, f)
        after  == get_db_cursor_exit(d, body.db, body.exc # "")
        out(r, m) == [db |-> after, raised |-> r, msg |-> m, attempts |-> attempt]
    IN  IF body.exc = ""
        THEN out(FALSE, body.msg)
        ELSE IF body.exc = "database is locked"
        THEN \* except sqlite3.OperationalError: time.sleep(0.1), then the retry
             IF ~TimeImported
             THEN out(TRUE, Msg("name 'time' is not defined", "", 0, 0))
             ELSE LET retry == create_order_safe(after, customer_id, items, locks, fault, attempt + 1)
                  IN  IF retry.raised
                      THEN [retry EXCEPT !.raised = FALSE,
                                         !.msg = Msg("error_creating_order_after_retry", "", 0, 0)]
                      ELSE retry
        ELSE out(FALSE, Msg("database_error", "", 0, 0))

(***************************************************************************)
(* One invocation of the order transaction on a store.                     *)
(***************************************************************************)
NoRequest == [customer_id |-> 0, items |-> <<>>, locks |-> 0, fault |-> "none"]
NoOutcome == [raised |-> FALSE, msg |-> NoMsg, attempts |-> 0]

\* The chat sessions a request may name; create_tables (database.py 103-136)
\* leaves the tables sessions, messages and tool_calls empty.
SessionIds == {"s", "t"}
NoSession == "absent"

\* seed_database (database.py 146-217): the store holds books, customers and
\* orders from the start.  Here: one order of customer 1, one copy of X.
SeedPrice == [isbn \in Isbns |-> IF isbn = "X" THEN 2 ELSE 3]

SeededDb(stock) ==
    [books |-> [isbn \in Isbns |-> [price |-> SeedPrice[isbn], stock |-> stock[isbn]]],
     orders |-> << [id |-> 1, customer_id |-> 1, total_amount |-> 2, status |-> "pending"] >>,
     order_items |-> << [order_id |-> 1, book_isbn |-> "X", quantity |-> 1, unit_price |-> 2] >>,
     sessions |-> [id \in SessionIds |-> NoSession],
     messages |-> <<>>,
     tool_calls |-> <<>>]

\* The locals of process_request before a request arrives.
NoAnalysis == [needs_tools |-> FALSE, tools_needed |-> "empty_list",
               reasoning |-> "", action_type |-> ""]
NoResponse == [final_response |-> [kind |-> "", reason |-> ""], analysis |-> NoAnalysis,
               tools_used |-> <<>>, tool_results |-> <<>>, needed_tools |-> FALSE]
IdleTurn ==
    [pc |-> "idle", analysis |-> NoAnalysis, tool_decisions |-> <<>>, next |-> 1,
     tool_results |-> <<>>, exc |-> "", synthesis |-> "", response |-> NoResponse]

IdleTxn ==
    [pc |-> "idle", customer_id |-> 0, items |-> <<>>, i |-> 0, total_amount |-> 0,
     order_items |-> <<>>, out |-> NoOutcome]

IdleExtract == [pc |-> "idle", text |-> <<>>, out |-> [type |-> "none"]]

\* The callers of get_tool_usage_history, each holding the list it got last.
Holders == {1}
NoView == [held |-> FALSE, live |-> FALSE, items |-> <<>>]
IdleApi == [op |-> "none", prev |-> "none", holder |-> 0, since_clear |-> <<>>,
            cleared |-> FALSE, dropped |-> FALSE]

\* No get_db_cursor scope has been entered; no chat request has arrived.
NoScope == [conn |-> "none", in_transaction |-> FALSE, before |-> <<>>, pending |-> <<>>,
            body |-> "", result |-> "", raised |-> FALSE]
IdleRequest ==
    [pc |-> "idle", session_id |-> "", found |-> FALSE, tool_calls |-> 0,
     status |-> 0, error |-> ""]

IdleChat == [pc |-> "idle", service |-> "", needs_tools |-> FALSE, calls_left |-> 0,
             lock_seen |-> FALSE, user_saved |-> FALSE, assistant_saved |-> FALSE,
             no_handler |-> 0, status |-> 0]

InitOrder ==
    /\ extract = IdleExtract
    /\ views = [holder \in Holders |-> NoView]
    /\ api = IdleApi
    /\ scope = NoScope
    /\ chat = IdleChat
    /\ requests = [p \in Procs |-> IdleRequest]
    /\ db \in { SeededDb(stock) : stock \in [Isbns -> 0..MaxStock] }
    /\ call = [phase |-> "idle", req |-> NoRequest, pre |-> db, out |-> NoOutcome]
    /\ txn = [p \in Procs |-> IdleTxn]
    /\ wlock = 0
    /\ turn = IdleTurn
    /\ tool_usage_history = <<>>
    /\ trace = <<>>

\* The caller invokes create_order_safe(customer_id, items); the storage layer's
\* behaviour during the call is fixed by (locks, fault).
CallCreateOrder ==
    /\ call.phase = "idle"
    /\ \E customer_id \in CustomerIds, items \in ItemLists,
          locks \in 0..MaxLocks, fault \in StorageFaults :
          call' = [phase |-> "called",
                   req |-> [customer_id |-> customer_id, items |-> items,
                            locks |-> locks, fault |-> fault],
                   pre |-> db, out |-> NoOutcome]
    /\ UNCHANGED <<db, txn, wlock, agentVars>>

ReturnCreateOrder ==
    /\ call.phase = "called"
    /\ LET r == create_order_safe(db, call.req.customer_id, call.req.items,
                                  call.req.locks, call.req.fault, 1)
       IN  /\ db' = r.db
           /\ call' = [call EXCEPT !.phase = "returned",
                                   !.out = [raised |-> r.raised, msg |-> r.msg,
                                            attempts |-> r.attempts]]
    /\ UNCHANGED <<txn, wlock, agentVars>>

NextOrder == CallCreateOrder \/ ReturnCreateOrder

SpecOrder == InitOrder /\ [][NextOrder]_vars

(***************************************************************************)
(* server/tools.py: restock_book_tool and update_price_tool                *)
(***************************************************************************)

\* RestockBookInput (lines 27-29) and UpdatePriceInput (lines 31-33): the
\* argument schemas the tools are run with; a value outside them makes run()
\* raise a validation error before the handler is entered.
RestockBookInput(quantity) == quantity >= 1
UpdatePriceInput(new_price) == new_price >= 0

\* Lines 305-338: restock_book_tool.  `locked': the storage layer reports a
\* lock on the UPDATE; the handler catches it and returns its text.
restock_book_tool(d, isbn, quantity, locked) ==
    LET pending == [d EXCEPT !.books[isbn].stock = @ + quantity]
        ret(p, m) == [db |-> p, raised |-> FALSE, msg |-> m]
    IN  IF ~RestockBookInput(quantity)
        THEN [db |-> d, raised |-> TRUE, msg |-> Msg("validation_error", isbn, quantity, 0)]
        ELSE IF isbn \notin DOMAIN d.books
        THEN ret(get_db_cursor_exit(d, d, FALSE), Msg("book_not_found", isbn, 0, 0))
        ELSE IF locked
        THEN ret(get_db_cursor_exit(d, d, TRUE),
                 Msg("error_restocking_book: database is locked", isbn, 0, 0))
        ELSE ret(get_db_cursor_exit(d, pending, FALSE),
                 Msg("restocked", isbn, quantity, pending.books[isbn].stock))

update_price_tool_RepricesLines(d, isbn, new_price, locked) ==
    LET pending == [d EXCEPT !.books[isbn].price = new_price,
                             !.order_items = [k \in DOMAIN @ |->
                                                IF @[k].book_isbn = isbn
                                                THEN [@[k] EXCEPT !.unit_price = new_price]
                                                ELSE @[k]]]
    IN  IF ~UpdatePriceInput(new_price) \/ isbn \notin DOMAIN d.books \/ locked
        THEN [db |-> d, raised |-> FALSE, msg |-> NoMsg]
        ELSE [db |-> pending, raised |-> FALSE,
              msg |-> Msg("price_updated", isbn, d.books[isbn].price, new_price)]

\* Lines 340-371: update_price_tool.
update_price_tool(d, isbn, new_price, locked) ==
    LET pending == [d EXCEPT !.books[isbn].price = new_price]
        ret(p, m) == [db |-> p, raised |-> FALSE, msg |-> m]
    IN  IF ~UpdatePriceInput(new_price)
        THEN [db |-> d, raised |-> TRUE, msg |-> Msg("validation_error", isbn, new_price, 0)]
        ELSE IF isbn \notin DOMAIN d.books
        THEN ret(get_db_cursor_exit(d, d, FALSE), Msg("book_not_found", isbn, 0, 0))
        ELSE IF locked
        THEN ret(get_db_cursor_exit(d, d, TRUE),
                 Msg("error_updating_book_price: database is locked", isbn, 0, 0))
        ELSE ret(get_db_cursor_exit(d, pending, FALSE),
                 Msg("price_updated", isbn, d.books[isbn].price, new_price))

(***************************************************************************)
(* The store under restock, price-update and order operations, executed    *)
(* one at a time.                                                          *)
(***************************************************************************)
MaxOrders == 2     \* the orders table holds at most MaxOrders rows

RestockBook ==
    \E isbn \in Isbns \cup {UnknownIsbn}, quantity \in -1..MaxQty, locked \in BOOLEAN :
       LET r == restock_book_tool(db, isbn, quantity, locked)
       IN  /\ \A b \in Isbns : r.db.books[b].stock <= MaxStock
           /\ db' = r.db
           /\ UNCHANGED <<call, txn, wlock, agentVars>>

UpdatePrice ==
    \E isbn \in Isbns \cup {UnknownIsbn}, new_price \in Prices \cup {-1, 0}, locked \in BOOLEAN :
       /\ db' = update_price_tool(db, isbn, new_price, locked).db
       /\ UNCHANGED <<call, txn, wlock, agentVars>>

CreateOrder ==
    /\ Len(db.orders) < MaxOrders
    /\ \E customer_id \in CustomerIds, items \in ItemLists,
          locks \in 0..MaxLocks, fault \in StorageFaults :
          db' = create_order_safe(db, customer_id, items, locks, fault, 1).db
    /\ UNCHANGED <<call, txn, wlock, agentVars>>

NextStore == RestockBook \/ UpdatePrice \/ CreateOrder

SpecStore == InitOrder /\ [][NextStore]_vars

\* C3: in every store reached by restock, price-update and order operations
\* from a store with no negative stock and no negative price, every stock is
\* >= 0 and every price is >= 0.
C3_StockAndPriceNonNegative ==
    \A isbn \in Isbns : db.books[isbn].stock >= 0 /\ db.books[isbn].price >= 0

(***************************************************************************)
(* Order transactions on connections of their own, interleaved.            *)
(*                                                                         *)
(* get_db_cursor (database.py 225-231) opens a connection in the sqlite3   *)
(* module's default mode: a SELECT opens no transaction and reads the      *)
(* committed store; the first INSERT begins the transaction and takes the  *)
(* store's write lock, which the scope's commit or rollback releases.  A   *)
(* connection that finds the lock taken waits, and gets "database is       *)
(* locked" when its busy timeout runs out first.                           *)
(***************************************************************************)

\* A request without two lines for one book: what goes wrong below is then
\* due to the interleaving alone.
DistinctBooks(items) ==
    \A i, j \in 1..Len(items) : i # j => items[i].isbn # items[j].isbn

Finish(p, raised, msg) ==
    txn' = [txn EXCEPT ![p].pc = "done",
                       ![p].out = [raised |-> raised, msg |-> msg, attempts |-> 1]]

\* The executor calls create_order_safe(customer_id, items) on connection p.
TxnCall(p) ==
    /\ txn[p].pc = "idle"
    /\ \E customer_id \in CustomerIds, items \in { l \in ItemLists : DistinctBooks(l) } :
          txn' = [txn EXCEPT ![p].pc = "customer", ![p].customer_id = customer_id,
                             ![p].items = items]
    /\ UNCHANGED <<db, call, wlock, agentVars>>

\* Lines 93-98: SELECT the customer.
TxnSelectCustomer(p) ==
    /\ txn[p].pc = "customer"
    /\ IF txn[p].customer_id \notin Customers
       THEN Finish(p, FALSE, Msg("customer_not_found", "", txn[p].customer_id, 0))
       ELSE txn' = [txn EXCEPT ![p].pc = "validate", ![p].i = 1]
    /\ UNCHANGED <<db, call, wlock, agentVars>>

\* Lines 104-133: one turn of the validation loop; its SELECT reads the
\* committed store.
TxnSelectBook(p) ==
    /\ txn[p].pc = "validate"
    /\ txn[p].i <= Len(txn[p].items)
    /\ LET item   == txn[p].items[txn[p].i]
           failed == check_line(db.books, item)
       IN  IF failed # NoMsg
           THEN Finish(p, FALSE, failed)
           ELSE txn' = [txn EXCEPT
                          ![p].i = @ + 1,
                          ![p].total_amount = @ + db.books[item.isbn].price * item.quantity,
                          ![p].order_items = Append(@, [isbn |-> item.isbn,
                                                        quantity |-> item.quantity,
                                                        unit_price |-> db.books[item.isbn].price])]
    /\ UNCHANGED <<db, call, wlock, agentVars>>

\* Lines 136-178 and the scope's commit: the INSERT of the order takes the
\* write lock; the line rows and the stock decrements are written on top of
\* the committed store, which no other connection can change meanwhile, and
\* stay invisible until the commit.
TxnInsertOrder(p) ==
    /\ txn[p].pc = "validate"
    /\ txn[p].i > Len(txn[p].items)
    /\ wlock = 0
    /\ wlock' = p
    /\ txn' = [txn EXCEPT ![p].pc = "writing"]
    /\ UNCHANGED <<db, call, agentVars>>

TxnCommit(p) ==
    /\ txn[p].pc = "writing"
    /\ wlock = p
    /\ LET order_id == Len(db.orders) + 1
           inserted == insert_order(db, txn[p].customer_id, txn[p].total_amount)
           written  == write_items(inserted, order_id, txn[p].order_items, 1,
                                   Len(txn[p].order_items))
       IN  /\ db' = get_db_cursor_exit(db, written, FALSE)
           /\ Finish(p, FALSE, Msg("order_created", "", order_id, txn[p].total_amount))
    /\ wlock' = 0
    /\ UNCHANGED <<call, agentVars>>

\* Lines 180-185: the INSERT finds the write lock taken until the busy timeout
\* runs out; the handler of the OperationalError calls time.sleep, which
\* raises NameError out of create_order_safe.
TxnLockTimeout(p) ==
    /\ txn[p].pc = "validate"
    /\ txn[p].i > Len(txn[p].items)
    /\ wlock \notin {0, p}
    /\ IF TimeImported
       THEN txn' = [txn EXCEPT ![p].pc = "customer", ![p].i = 0, ![p].total_amount = 0,
                               ![p].order_items = <<>>]
       ELSE Finish(p, TRUE, Msg("name 'time' is not defined", "", 0, 0))
    /\ UNCHANGED <<db, call, wlock, agentVars>>

NextConc ==
    \E p \in Procs :
        \/ TxnCall(p)
        \/ TxnSelectCustomer(p)
        \/ TxnSelectBook(p)
        \/ TxnInsertOrder(p)
        \/ TxnCommit(p)
        \/ TxnLockTimeout(p)

SpecConc == InitOrder /\ [][NextConc]_vars

\* The copies of isbn in the order lines among rows 1..n.
RECURSIVE SoldCopies(_, _, _)
SoldCopies(rows, isbn, n) ==
    IF n = 0 THEN 0
    ELSE SoldCopies(rows, isbn, n - 1) + (IF rows[n].book_isbn = isbn THEN rows[n].quantity ELSE 0)

\* C4: in every interleaving of concurrent order transactions, no stock is
\* negative, and the quantities of the orders that succeeded do not exceed the
\* stock the book had before them (call.pre is the store they started from).
C4_NoOversellUnderConcurrency ==
    \A isbn \in Isbns :
        /\ db.books[isbn].stock >= 0
        /\ SoldCopies(db.order_items, isbn, Len(db.order_items))
             - SoldCopies(call.pre.order_items, isbn, Len(call.pre.order_items))
             <= call.pre.books[isbn].stock

(***************************************************************************)
(* Properties of one invocation of the order transaction (SpecOrder).      *)
(***************************************************************************)
Returned == call.phase = "returned"

\* The request's line names a book and asks for more than the store holds.
ExceedsStock(books, item) ==
    item.isbn \in DOMAIN books /\ item.quantity > books[item.isbn].stock

\* The request's line names a book and asks for 1..stock copies of it.
ValidLine(books, item) ==
    item.isbn \in DOMAIN books /\ item.quantity >= 1 /\ item.quantity <= books[item.isbn].stock

SomeLineExceedsStock ==
    \E i \in 1..Len(call.req.items) : ExceedsStock(call.pre.books, call.req.items[i])

AllLinesValid ==
    \A i \in 1..Len(call.req.items) : ValidLine(call.pre.books, call.req.items[i])

\* Line i is the first line of the request that is not valid.
FirstFailingLine(i) ==
    /\ i \in 1..Len(call.req.items)
    /\ ~ValidLine(call.pre.books, call.req.items[i])
    /\ \A j \in 1..(i - 1) : ValidLine(call.pre.books, call.req.items[j])

StorageBehaves == call.req.locks = 0 /\ call.req.fault = "none"

FailureKinds ==
    {"customer_not_found", "item_needs_isbn_and_quantity", "quantity_must_be_positive",
     "book_not_found", "not_enough_stock", "order_not_created", "database_error",
     "error_creating_order_after_retry"}

\* The function returned a text that reports a failure.
FailureReturned == ~call.out.raised /\ call.out.msg.kind \in FailureKinds

\* The function returned the text that reports the stock of line i as insufficient.
InsufficientStockReturned(i) ==
    /\ ~call.out.raised
    /\ call.out.msg = Msg("not_enough_stock", call.req.items[i].isbn,
                          call.pre.books[call.req.items[i].isbn].stock,
                          call.req.items[i].quantity)

\* C1, as stated: whenever some line of the request asks for more than the
\* stock of its book, the invocation leaves orders, order lines and stock as
\* they were and returns the insufficient-stock failure with the available
\* quantity.
C1_AsStated ==
    (Returned /\ SomeLineExceedsStock) =>
        /\ db = call.pre
        /\ ~call.out.raised
        /\ call.out.msg.kind = "not_enough_stock"
        /\ call.out.msg.isbn \in Isbns
        /\ call.out.msg.n = call.pre.books[call.out.msg.isbn].stock

\* C1, amended: whenever some line of the request asks for more than the stock
\* of its book, the invocation creates no order row and no order-line row,
\* leaves every stock unchanged and returns a failure; the failure is the
\* insufficient-stock one, reporting the available quantity of the line,
\* when the customer exists and the first line in list order that fails is a
\* line that exceeds its stock, at whatever position that line is.
C1_NoOrderOnInsufficientStock ==
    (Returned /\ SomeLineExceedsStock) =>
        /\ db.orders = call.pre.orders
        /\ db.order_items = call.pre.order_items
        /\ \A isbn \in Isbns : db.books[isbn].stock = call.pre.books[isbn].stock
        /\ FailureReturned
        /\ \A i \in 1..Len(call.req.items) :
              ( /\ call.req.customer_id \in Customers
                /\ FirstFailingLine(i)
                /\ ExceedsStock(call.pre.books, call.req.items[i]) )
              => InsufficientStockReturned(i)

\* The failing line is the second one, after a valid line, in a store that
\* had stock of the first line's book.
C1_Witness ==
    /\ Returned
    /\ call.req.customer_id \in Customers
    /\ Len(call.req.items) = 2
    /\ FirstFailingLine(2)
    /\ ExceedsStock(call.pre.books, call.req.items[2])
    /\ call.out.msg.kind = "not_enough_stock"

\* The sum of price x quantity over lines 1..n of items, at the prices of books.
RECURSIVE SumCost(_, _, _)
SumCost(books, items, n) ==
    IF n = 0 THEN 0
    ELSE SumCost(books, items, n - 1) + books[items[n].isbn].price * items[n].quantity

\* The sum of the quantities of the lines among 1..n of items that name isbn.
RECURSIVE SumQuantity(_, _, _)
SumQuantity(items, isbn, n) ==
    IF n = 0 THEN 0
    ELSE SumQuantity(items, isbn, n - 1) + (IF items[n].isbn = isbn THEN items[n].quantity ELSE 0)

RequestedTotal == SumCost(call.pre.books, call.req.items, Len(call.req.items))

RequestedQuantity(isbn) == SumQuantity(call.req.items, isbn, Len(call.req.items))

\* The invocation added exactly one order row, the last one.
OneOrderAdded == Len(db.orders) = Len(call.pre.orders) + 1

NewOrder == db.orders[Len(db.orders)]

\* C2: when the customer exists, every line names a book with a quantity of
\* 1..stock and the storage layer reports no fault, the invocation succeeds,
\* the stored total is the sum of price x quantity over the lines, the stock
\* of every book decreases by the quantity requested of it, and the stock of a
\* book that no line names is unchanged.
C2_ValidOrderSucceeds ==
    (Returned /\ call.req.customer_id \in Customers /\ AllLinesValid /\ StorageBehaves) =>
        /\ ~call.out.raised
        /\ call.out.msg.kind = "order_created"
        /\ OneOrderAdded
        /\ NewOrder.customer_id = call.req.customer_id
        /\ NewOrder.total_amount = RequestedTotal
        /\ call.out.msg.m = RequestedTotal
        /\ \A isbn \in Isbns :
              /\ db.books[isbn].stock = call.pre.books[isbn].stock - RequestedQuantity(isbn)
              /\ (\A i \in 1..Len(call.req.items) : call.req.items[i].isbn # isbn)
                    => db.books[isbn] = call.pre.books[isbn]

\* A two-line order of one book succeeded while the other book had stock.
C2_Witness ==
    /\ Returned /\ call.req.customer_id \in Customers /\ AllLinesValid /\ StorageBehaves
    /\ Len(call.req.items) = 2
    /\ \E isbn \in Isbns :
          /\ \A i \in 1..2 : call.req.items[i].isbn # isbn
          /\ call.pre.books[isbn].stock > 0
    /\ call.out.msg.kind = "order_created"

\* The order row of this invocation with every line row of the request and
\* every stock decrement is in the store.
CompleteOrderCommitted ==
    /\ OneOrderAdded
    /\ Len(db.order_items) = Len(call.pre.order_items) + Len(call.req.items)
    /\ \A i \in 1..Len(call.req.items) :
          LET row == db.order_items[Len(call.pre.order_items) + i]
          IN  /\ row.order_id = NewOrder.id
              /\ row.book_isbn = call.req.items[i].isbn
              /\ row.quantity = call.req.items[i].quantity
    /\ \A isbn \in Isbns :
          db.books[isbn].stock = call.pre.books[isbn].stock - RequestedQuantity(isbn)

\* C5: every invocation ends either with a success and one complete order
\* committed, or with a failure (a failure text, or an exception the executor
\* turns into a failed result) and the store exactly as it was before.
C5_AllOrNothing ==
    Returned =>
        \/ ~call.out.raised /\ call.out.msg.kind = "order_created" /\ CompleteOrderCommitted
        \/ (call.out.raised \/ call.out.msg.kind \in FailureKinds) /\ db = call.pre

\* C6: when the storage layer reports a lock on the first attempt only and the
\* request is one that succeeds, the invocation ends with a success, a created
\* order and exactly two attempts.
C6_SucceedsAfterOneRetry ==
    ( /\ Returned
      /\ call.req.locks = 1 /\ call.req.fault = "none"
      /\ call.req.customer_id \in Customers /\ AllLinesValid ) =>
        /\ ~call.out.raised
        /\ call.out.msg.kind = "order_created"
        /\ OneOrderAdded
        /\ call.out.attempts = 2

\* C7: an invocation makes at most two attempts, and when the storage layer
\* reports a lock on the first two attempts the caller receives the
\* system-busy result after exactly two attempts.
C7_BoundedRetry ==
    Returned =>
        /\ call.out.attempts <= 2
        /\ ( /\ call.req.locks >= 2
             /\ call.req.customer_id \in Customers /\ AllLinesValid ) =>
                /\ ~call.out.raised
                /\ call.out.msg.kind = "system_busy_retry_later"
                /\ call.out.attempts = 2

(***************************************************************************)
(* server/gemini_agent.py: the agent pipeline                              *)
(***************************************************************************)
MaxCalls == 2      \* a planning response holds at most MaxCalls operation calls

\* Lines 38-47: the registry.
Tools ==
    {"find_books", "create_order", "restock_book", "update_price", "order_status",
     "inventory_summary", "search_knowledge_base", "list_customers"}

ReadOnlyTools ==
    {"find_books", "order_status", "inventory_summary", "search_knowledge_base",
     "list_customers"}

NoneName       == "None"        \* tool_decision.get("tool_name") of a call without the key
UnhashableName == "['a']"       \* a tool_name that is a JSON array: not hashable

\* The parameters of a call; quantity is <<>> when the key is missing.
Params(customer_id, items, isbn, quantity, new_price) ==
    [customer_id |-> customer_id, items |-> items, isbn |-> isbn,
     quantity |-> quantity, new_price |-> new_price]
NoParams == Params(0, <<>>, "", <<>>, 0)

Decision(tool_name, parameters) ==
    [is_dict |-> TRUE, tool_name |-> tool_name, parameters |-> parameters]

\* The operation calls a planning response may hold.
PlannedCalls ==
    { Decision("create_order", Params(c, << [isbn |-> "X", quantity |-> 1] >>, "", <<>>, 0))
        : c \in CustomerIds }
    \cup { Decision("restock_book", Params(0, <<>>, "X", q, 0)) : q \in { <<>>, <<-1>>, <<0>>, <<1>> } }
    \cup { Decision("update_price", Params(0, <<>>, "X", <<>>, 3)),
           Decision("list_customers", NoParams),
           Decision("send_email", NoParams),
           Decision(NoneName, NoParams),
           Decision(UnhashableName, NoParams),
           [is_dict |-> FALSE, tool_name |-> NoneName, parameters |-> NoParams] }

\* What _parse_json_response made of the planning response, or the failure of
\* the Completion Service call.
PlanningOutcomes ==
    { [ok |-> FALSE, shape |-> "", calls |-> <<>>] }
    \cup { [ok |-> TRUE, shape |-> "list", calls |-> l] : l \in SeqsUpTo(PlannedCalls, MaxCalls) }
    \cup { [ok |-> TRUE, shape |-> "dict", calls |-> <<c>>] : c \in { d \in PlannedCalls : d.is_dict } }
    \cup { [ok |-> TRUE, shape |-> sh, calls |-> <<>>] : sh \in {"null", "scalar"} }

\* What _parse_json_response made of the analysis response: a JSON object
\* [needs_tools, tools_needed, reasoning] with each key absent or given, a list
\* holding such an object, an empty list or a scalar; or the failure of the call.
AnalysisDict(needs_tools, tools_needed, reasoning) ==
    [needs_tools |-> needs_tools, tools_needed |-> tools_needed, reasoning |-> reasoning]
EmptyDict == AnalysisDict("absent", "absent", "absent")

AnalysisOutcomes ==
    { [ok |-> FALSE, shape |-> "", d |-> EmptyDict] }
    \cup { [ok |-> TRUE, shape |-> "dict", d |-> AnalysisDict(n, t, "given")]
             : n \in {"absent", "true", "false"},
               t \in {"absent", "empty_list", "names", "number"} }
    \cup { [ok |-> TRUE, shape |-> "dict", d |-> EmptyDict],
           [ok |-> TRUE, shape |-> "list", d |-> AnalysisDict("true", "names", "given")],
           [ok |-> TRUE, shape |-> "empty_list", d |-> EmptyDict],
           [ok |-> TRUE, shape |-> "scalar", d |-> EmptyDict] }

\* Lines 90-121: analyze_request, after the Completion Service answered.
analyze_request(outcome) ==
    IF ~outcome.ok
    THEN [needs_tools |-> FALSE, tools_needed |-> "empty_list",
          reasoning |-> "Error during analysis", action_type |-> "error"]
    ELSE LET d == IF outcome.shape \in {"dict", "list"} THEN outcome.d ELSE EmptyDict
         IN  [needs_tools  |-> d.needs_tools = "true",
              tools_needed |-> IF d.tools_needed = "absent" THEN "empty_list" ELSE d.tools_needed,
              reasoning    |-> IF d.reasoning = "absent" THEN "Analysis completed" ELSE "given",
              action_type  |-> "other"]

Truthy_Always(tools_needed) == TRUE

\* Python's truth value of analysis["tools_needed"].
Truthy(tools_needed) == tools_needed \in {"names", "number"}

\* Lines 194-266: determine_tool_parameters.  ", ".join(tools_needed) (line
\* 199) is outside the try and raises TypeError for a value that is no list of
\* strings; inside the try, every failure gives [].
determine_tool_parameters(tools_needed, outcome) ==
    LET ret(l) == [exc |-> "", tool_decisions |-> l, asked |-> TRUE]
    IN  IF ~Truthy(tools_needed)
        THEN [exc |-> "", tool_decisions |-> <<>>, asked |-> FALSE]
        ELSE IF tools_needed = "number"
        THEN [exc |-> "can only join an iterable", tool_decisions |-> <<>>, asked |-> FALSE]
        ELSE IF ~outcome.ok THEN ret(<<>>)
        ELSE IF outcome.shape = "dict" THEN ret(outcome.calls)
        ELSE IF outcome.shape # "list" THEN ret(<<>>)
        ELSE IF \E i \in 1..Len(outcome.calls) : ~outcome.calls[i].is_dict
        THEN ret(<<>>)          \* t.get('tool_name') of line 261 raises; caught on line 264
        ELSE ret(outcome.calls)

\* tools[tool_name].run(parameters) (line 147): the argument schema is checked,
\* then the handler runs.  `locked': the storage layer reports a lock on the
\* handler's first write.
run_tool(tool_name, parameters, d, locked) ==
    IF tool_name = "create_order"
    THEN LET r == create_order_safe(d, parameters.customer_id, parameters.items,
                                    IF locked THEN 1 ELSE 0, "none", 1)
         IN  [db |-> r.db, raised |-> r.raised, msg |-> r.msg]
    ELSE IF tool_name = "restock_book"
    THEN IF parameters.quantity = <<>>
         THEN [db |-> d, raised |-> TRUE, msg |-> Msg("validation_error", parameters.isbn, 0, 0)]
         ELSE restock_book_tool(d, parameters.isbn, parameters.quantity[1], locked)
    ELSE IF tool_name = "update_price"
    THEN update_price_tool(d, parameters.isbn, parameters.new_price, locked)
    ELSE [db |-> d, raised |-> FALSE, msg |-> Msg("listing", "", 0, 0)]

Text(prefix, msg) == [prefix |-> prefix, msg |-> msg]

ToolResult(tool_name, result, success) ==
    [tool_name |-> tool_name, result |-> result, success |-> success]

UsageRecord(tool_name, parameters, result, success) ==
    [tool_name |-> tool_name, parameters |-> parameters, result |-> result, success |-> success]

\* Lines 127-190: one turn of the loop of execute_tools, on the committed store
\* d and the usage history h.  Yields the store, the history, the results
\* appended, the exception that leaves execute_tools ("" when none) and whether
\* run() was called.
unknown_tool_Succeeds(decision, d, h, locked) ==
    [db |-> d, history |-> h, exc |-> "", invoked |-> FALSE,
     results |-> << ToolResult(decision.tool_name, Text("", Msg("unknown_tool", "", 0, 0)), TRUE) >>]

unknown_tool_NoResult(decision, d, h, locked) ==
    [db |-> d, history |-> h, exc |-> "", invoked |-> FALSE, results |-> <<>>]

unknown_tool(decision, d, h, locked) ==
    [db |-> d, history |-> h, exc |-> "", invoked |-> FALSE,
     results |-> << ToolResult(decision.tool_name, Text("", Msg("unknown_tool", "", 0, 0)), FALSE) >>]

record_result_Propagates(tool_name, parameters, h, r) ==
    IF r.raised
    THEN [db |-> r.db, history |-> h, exc |-> r.msg.kind, invoked |-> TRUE, results |-> <<>>]
    ELSE [db |-> r.db,
          history |-> Append(h, UsageRecord(tool_name, parameters, Text("", r.msg), TRUE)),
          exc |-> "", invoked |-> TRUE,
          results |-> << ToolResult(tool_name, Text("", r.msg), TRUE) >>]

\* Lines 147-166: the result of run() becomes a result of the turn and a
\* record of the usage history, whether run() returned or raised.
record_result(tool_name, parameters, h, r) ==
    LET text == IF r.raised THEN Text("Error executing tool", r.msg) ELSE Text("", r.msg)
    IN  [db |-> r.db,
         history |-> Append(h, UsageRecord(tool_name, parameters, text, ~r.raised)),
         exc |-> "", invoked |-> TRUE,
         results |-> << ToolResult(tool_name, text, ~r.raised) >>]

quantity_or_zero_DefaultOne(parameters) ==
    IF parameters.quantity = <<>> THEN 1 ELSE parameters.quantity[1]

\* Line 136: parameters.get("quantity", 0).
quantity_or_zero(parameters) ==
    IF parameters.quantity = <<>> THEN 0 ELSE parameters.quantity[1]

execute_tool(decision, d, h, locked) ==
    IF decision.tool_name = UnhashableName
    THEN [db |-> d, history |-> h, exc |-> "unhashable type", invoked |-> FALSE,
          results |-> <<>>]
    ELSE IF decision.tool_name \notin Tools
    THEN unknown_tool(decision, d, h, locked)
    ELSE IF decision.tool_name = "restock_book" /\ quantity_or_zero(decision.parameters) <= 0
    THEN [db |-> d, history |-> h, exc |-> "", invoked |-> FALSE,
          results |-> << ToolResult(decision.tool_name,
                                    Text("", Msg("cannot_restock_non_positive", "",
                                                 quantity_or_zero(decision.parameters), 0)),
                                    FALSE) >>]
    ELSE record_result(decision.tool_name, decision.parameters, h,
                       run_tool(decision.tool_name, decision.parameters, d, locked))

\* Lines 272-277: the texts that hold "database is locked" or "database is busy".
LockIndicatorTexts ==
    {"error_restocking_book: database is locked",
     "error_updating_book_price: database is locked"}

HasLockIndicator(tool_results) ==
    \E i \in 1..Len(tool_results) : tool_results[i].result.msg.kind \in LockIndicatorTexts

FinalText(kind, reason) == [kind |-> kind, reason |-> reason]

generate_final_response_FailureText(tool_results, service_ok) ==
    IF HasLockIndicator(tool_results)
    THEN [text |-> FinalText("high_traffic", ""), asked |-> FALSE]
    ELSE IF service_ok
    THEN [text |-> FinalText("synthesized", ""), asked |-> TRUE]
    ELSE [text |-> FinalText("encountered_error", "service failure"), asked |-> TRUE]

generate_final_response_NoShortCircuit(tool_results, service_ok) ==
    IF service_ok
    THEN [text |-> FinalText("synthesized", ""), asked |-> TRUE]
    ELSE [text |-> FinalText("apology", ""), asked |-> TRUE]

\* Lines 268-319: generate_final_response; service_ok: the Completion Service
\* answers the synthesis prompt.
generate_final_response(tool_results, service_ok) ==
    IF HasLockIndicator(tool_results)
    THEN [text |-> FinalText("high_traffic", ""), asked |-> FALSE]
    ELSE IF service_ok
    THEN [text |-> FinalText("synthesized", ""), asked |-> TRUE]
    ELSE [text |-> FinalText("apology", ""), asked |-> TRUE]

\* Line 422: the mapping {"error": str(e)}; it holds none of the keys of an
\* analysis.
ErrorAnalysis(e) ==
    [needs_tools |-> FALSE, tools_needed |-> "empty_list", reasoning |-> e,
     action_type |-> "error"]

\* Lines 418-426: the except clause of process_request.
process_request_except_KeepsTools(t, e) ==
    [t EXCEPT !.pc = "errored", !.exc = e,
              !.response = [final_response |-> FinalText("encountered_error", e),
                            analysis |-> ErrorAnalysis(e),
                            tools_used |-> t.tool_decisions, tool_results |-> t.tool_results,
                            needed_tools |-> t.analysis.needs_tools]]

process_request_except(t, e) ==
    [t EXCEPT !.pc = "errored", !.exc = e,
              !.response = [final_response |-> FinalText("encountered_error", e),
                            analysis |-> ErrorAnalysis(e),
                            tools_used |-> <<>>, tool_results |-> <<>>,
                            needed_tools |-> FALSE]]

Event(ev, i) == [ev |-> ev, i |-> i]

\* process_request(user_request) is entered.
Receive ==
    /\ turn.pc = "idle"
    /\ turn' = [turn EXCEPT !.pc = "received"]
    /\ UNCHANGED <<storeVars, tool_usage_history, trace, auxVars>>

\* Line 389: analyze_request.
Analyze ==
    /\ turn.pc = "received"
    /\ \E outcome \in AnalysisOutcomes :
          turn' = [turn EXCEPT !.pc = "analyzed", !.analysis = analyze_request(outcome)]
    /\ trace' = Append(trace, Event("analysis", 0))
    /\ UNCHANGED <<storeVars, tool_usage_history, auxVars>>

\* Lines 398-400: operations are needed; determine_tool_parameters.
Plan ==
    /\ turn.pc = "analyzed"
    /\ turn.analysis.needs_tools /\ Truthy(turn.analysis.tools_needed)
    /\ \E outcome \in PlanningOutcomes :
          LET r == determine_tool_parameters(turn.analysis.tools_needed, outcome)
          IN  /\ turn' = IF r.exc # ""
                         THEN process_request_except(turn, r.exc)
                         ELSE [turn EXCEPT !.pc = IF r.tool_decisions = <<>>
                                                  THEN "executed" ELSE "planned",
                                           !.tool_decisions = r.tool_decisions]
              /\ trace' = IF r.asked THEN Append(trace, Event("planning", 0)) ELSE trace
    /\ UNCHANGED <<storeVars, tool_usage_history, auxVars>>

\* Line 398, the other branch: no operation is needed.
SkipTools ==
    /\ turn.pc = "analyzed"
    /\ ~(turn.analysis.needs_tools /\ Truthy(turn.analysis.tools_needed))
    /\ turn' = [turn EXCEPT !.pc = "executed"]
    /\ UNCHANGED <<storeVars, tool_usage_history, trace, auxVars>>

\* Lines 403-404: execute_tools, one call of the list.
ExecuteTool ==
    /\ turn.pc = "planned"
    /\ turn.next <= Len(turn.tool_decisions)
    /\ \E locked \in BOOLEAN :
          \E r \in { execute_tool(turn.tool_decisions[turn.next], db, tool_usage_history, locked) } :
              /\ db' = r.db
              /\ tool_usage_history' = r.history
              /\ trace' = IF r.invoked THEN Append(trace, Event("handler", turn.next)) ELSE trace
              /\ turn' = IF r.exc # ""
                         THEN process_request_except(turn, r.exc)
                         ELSE [turn EXCEPT !.pc = IF turn.next = Len(turn.tool_decisions)
                                                  THEN "executed" ELSE "planned",
                                           !.next = @ + 1,
                                           !.tool_results = @ \o r.results]
    /\ UNCHANGED <<call, txn, wlock, auxVars>>

Respond_BeforeResults ==
    /\ turn.pc \in {"planned", "executed"}
    /\ \E service_ok \in BOOLEAN :
          LET r == generate_final_response(turn.tool_results, service_ok)
          IN  /\ turn' = [turn EXCEPT !.pc = "responded",
                                      !.synthesis = IF ~r.asked THEN "not_called"
                                                    ELSE IF service_ok THEN "answered"
                                                    ELSE "failed",
                                      !.response = [final_response |-> r.text,
                                                    analysis |-> turn.analysis,
                                                    tools_used |-> turn.tool_decisions,
                                                    tool_results |-> turn.tool_results,
                                                    needed_tools |-> turn.analysis.needs_tools]]
              /\ trace' = IF r.asked THEN Append(trace, Event("synthesis", 0)) ELSE trace
    /\ UNCHANGED <<storeVars, tool_usage_history, auxVars>>

\* Lines 407-416: generate_final_response and the result of the turn.
Respond ==
    /\ turn.pc = "executed"
    /\ \E service_ok \in BOOLEAN :
          LET r == generate_final_response(turn.tool_results, service_ok)
          IN  /\ turn' = [turn EXCEPT !.pc = "responded",
                                      !.synthesis = IF ~r.asked THEN "not_called"
                                                    ELSE IF service_ok THEN "answered"
                                                    ELSE "failed",
                                      !.response = [final_response |-> r.text,
                                                    analysis |-> turn.analysis,
                                                    tools_used |-> turn.tool_decisions,
                                                    tool_results |-> turn.tool_results,
                                                    needed_tools |-> turn.analysis.needs_tools]]
              /\ trace' = IF r.asked THEN Append(trace, Event("synthesis", 0)) ELSE trace
    /\ UNCHANGED <<storeVars, tool_usage_history, auxVars>>

NextAgent == Receive \/ Analyze \/ Plan \/ SkipTools \/ ExecuteTool \/ Respond

SpecAgent == InitOrder /\ [][NextAgent]_vars

(***************************************************************************)
(* server/gemini_agent.py: _parse_json_response                            *)
(***************************************************************************)
MaxText == 4       \* a response text holds at most MaxText tokens

\* A response text, token by token (white space and commas left out):
\* brackets and braces, "k" a key with its colon, "1" a number, "s]" a string
\* literal that holds the character ], "w" a word of prose, "fence_json" and
\* "fence" the markers of a code block with and without the json tag.
Tokens == {"[", "]", "{", "}", "k", "1", "s]", "w", "fence_json", "fence"}

Texts == SeqsUpTo(Tokens, MaxText)

\* json.loads: the position after the JSON value that starts at t[i], 0 when
\* no value starts there.
RECURSIVE EndOfValue(_, _), EndOfElements(_, _), EndOfMembers(_, _)
EndOfValue(t, i) ==
    IF i > Len(t) THEN 0
    ELSE IF t[i] \in {"1", "s]"} THEN i + 1
    ELSE IF t[i] = "[" THEN EndOfElements(t, i + 1)
    ELSE IF t[i] = "{" THEN EndOfMembers(t, i + 1)
    ELSE 0

EndOfElements(t, i) ==
    IF i > Len(t) THEN 0
    ELSE IF t[i] = "]" THEN i + 1
    ELSE IF EndOfValue(t, i) = 0 THEN 0
    ELSE EndOfElements(t, EndOfValue(t, i))

EndOfMembers(t, i) ==
    IF i > Len(t) THEN 0
    ELSE IF t[i] = "}" THEN i + 1
    ELSE IF t[i] # "k" \/ EndOfValue(t, i + 1) = 0 THEN 0
    ELSE EndOfMembers(t, EndOfValue(t, i + 1))

\* A parsed value is told by its tokens; json.loads raises JSONDecodeError on
\* anything but one whole value.
Value(t) == [type |-> "value", tokens |-> t]
JSONDecodeError == [type |-> "JSONDecodeError"]
EmptyObject == Value(<< "{", "}" >>)

json_loads(t) ==
    IF EndOfValue(t, 1) = Len(t) + 1 THEN Value(t) ELSE JSONDecodeError

\* Lines 325-332: the fence markers are taken off the two ends.
cleaned_text(text) ==
    LET a == IF Len(text) > 0 /\ text[1] = "fence_json" THEN Tail(text) ELSE text
    IN  IF Len(a) > 0 /\ a[Len(a)] = "fence" THEN SubSeq(a, 1, Len(a) - 1) ELSE a

\* str.find: the first position of token c, 0 when there is none.
Find(t, c) ==
    IF \E i \in 1..Len(t) : t[i] = c
    THEN CHOOSE i \in 1..Len(t) : t[i] = c /\ \A j \in 1..(i - 1) : t[j] # c
    ELSE 0

\* Lines 348-365: the scan for the closing character.  It counts characters,
\* those inside string literals too.  The position where the count comes back
\* to 0, or 0 when it never does.
RECURSIVE ScanClose(_, _, _, _, _)
ScanClose(t, i, open, closes, count) ==
    IF i > Len(t) THEN 0
    ELSE IF t[i] = open THEN ScanClose(t, i + 1, open, closes, count + 1)
    ELSE IF t[i] \in closes
    THEN IF count = 1 THEN i ELSE ScanClose(t, i + 1, open, closes, count - 1)
    ELSE ScanClose(t, i + 1, open, closes, count)

extract_json_FirstOpener(t) ==
    LET a         == Find(t, "[")
        b         == Find(t, "{")
        start_idx == IF a = 0 THEN b ELSE IF b = 0 THEN a ELSE IF a < b THEN a ELSE b
        last      == IF start_idx = 0 THEN 0
                     ELSE IF t[start_idx] = "[" THEN ScanClose(t, start_idx, "[", {"]", "s]"}, 0)
                     ELSE ScanClose(t, start_idx, "{", {"}"}, 0)
    IN  IF start_idx = 0 \/ last = 0 THEN EmptyObject
        ELSE IF t[last] = "s]" THEN JSONDecodeError
        ELSE json_loads(SubSeq(t, start_idx, last))

\* Lines 341-371: the extraction, once json.loads of the whole text failed.
\* A scan that ends inside a string literal cuts the literal, and json.loads
\* of the cut text raises.
extract_json(t) ==
    LET start_idx == IF Find(t, "[") # 0 THEN Find(t, "[") ELSE Find(t, "{")
        last      == IF start_idx = 0 THEN 0
                     ELSE IF t[start_idx] = "[" THEN ScanClose(t, start_idx, "[", {"]", "s]"}, 0)
                     ELSE ScanClose(t, start_idx, "{", {"}"}, 0)
    IN  IF start_idx = 0 \/ last = 0 THEN EmptyObject
        ELSE IF t[last] = "s]" THEN JSONDecodeError
        ELSE json_loads(SubSeq(t, start_idx, last))

\* Lines 321-380: _parse_json_response; an exception in the body gives {}.
parse_json_response(text) ==
    LET direct == json_loads(cleaned_text(text))
        found  == extract_json(cleaned_text(text))
    IN  IF direct # JSONDecodeError THEN direct
        ELSE IF found = JSONDecodeError THEN EmptyObject
        ELSE found

InitParse ==
    /\ db = SeededDb([isbn \in Isbns |-> MaxStock])
    /\ call = [phase |-> "idle", req |-> NoRequest, pre |-> db, out |-> NoOutcome]
    /\ txn = [p \in Procs |-> IdleTxn]
    /\ wlock = 0
    /\ turn = IdleTurn
    /\ tool_usage_history = <<>>
    /\ trace = <<>>
    /\ views = [holder \in Holders |-> NoView]
    /\ api = IdleApi
    /\ scope = NoScope
    /\ chat = IdleChat
    /\ requests = [p \in Procs |-> IdleRequest]
    /\ extract \in { [pc |-> "called", text |-> t, out |-> [type |-> "none"]] : t \in Texts }

\* _parse_json_response(text) returns.
ParseJsonResponse ==
    /\ extract.pc = "called"
    /\ extract' = [extract EXCEPT !.pc = "returned", !.out = parse_json_response(extract.text)]
    /\ UNCHANGED <<storeVars, turn, tool_usage_history, trace, views, api, reqVars>>

NextParse == ParseJsonResponse

SpecParse == InitParse /\ [][NextParse]_vars

(***************************************************************************)
(* server/gemini_agent.py: the usage history                               *)
(***************************************************************************)
MaxRecords == 2    \* the usage history holds at most MaxRecords records

\* The calls executed in the histories explored.
HistoryCalls ==
    { Decision("list_customers", NoParams),
      Decision("update_price", Params(0, <<>>, "X", <<>>, 3)),
      Decision("send_email", NoParams) }

\* What a holder of a returned list adds to it.
ForeignRecord ==
    UsageRecord("added_by_holder", NoParams, Text("", NoMsg), FALSE)

\* Lines 432-435: clear_tool_history; list.clear() empties the list in place.
clear_tool_history_NoOp(h) == h

clear_tool_history(h) == <<>>

\* Lines 428-430: get_tool_usage_history; list.copy() is a new list with the
\* same elements.  A list that is `live' is the agent's list itself.
get_tool_usage_history_LiveView(h) == [held |-> TRUE, live |-> TRUE, items |-> h]

get_tool_usage_history(h) == [held |-> TRUE, live |-> FALSE, items |-> h]

\* Every name of the agent's list sees its new content.
Aliased(vs, h) ==
    [holder \in Holders |-> IF vs[holder].live THEN [vs[holder] EXCEPT !.items = h]
                            ELSE vs[holder]]

InitHistory ==
    /\ db = SeededDb([isbn \in Isbns |-> MaxStock])
    /\ call = [phase |-> "idle", req |-> NoRequest, pre |-> db, out |-> NoOutcome]
    /\ txn = [p \in Procs |-> IdleTxn]
    /\ wlock = 0
    /\ turn = IdleTurn
    /\ tool_usage_history = <<>>
    /\ trace = <<>>
    /\ extract = IdleExtract
    /\ views = [holder \in Holders |-> NoView]
    /\ api = IdleApi
    /\ scope = NoScope
    /\ chat = IdleChat
    /\ requests = [p \in Procs |-> IdleRequest]

\* execute_tools runs one call; lines 150-156 and 170-176 append to the list.
HistoryExecute ==
    /\ Len(tool_usage_history) < MaxRecords
    /\ \E decision \in HistoryCalls, locked \in BOOLEAN :
          \E r \in { execute_tool(decision, db, tool_usage_history, locked) } :
              /\ db' = r.db
              /\ tool_usage_history' = r.history
              /\ views' = Aliased(views, r.history)
              /\ api' = [api EXCEPT !.op = "execute", !.prev = api.op,
                                    !.since_clear = @ \o SubSeq(r.history,
                                                                Len(tool_usage_history) + 1,
                                                                Len(r.history))]
    /\ UNCHANGED <<call, txn, wlock, turn, trace, extract, reqVars>>

ClearToolHistory ==
    /\ tool_usage_history' = clear_tool_history(tool_usage_history)
    /\ views' = Aliased(views, tool_usage_history')
    /\ api' = [api EXCEPT !.op = "clear", !.prev = api.op, !.since_clear = <<>>,
                          !.cleared = TRUE,
                          !.dropped = @ \/ tool_usage_history # <<>>]
    /\ UNCHANGED <<storeVars, turn, trace, extract, reqVars>>

GetToolUsageHistory ==
    /\ \E holder \in Holders :
          /\ views' = [views EXCEPT ![holder] = get_tool_usage_history(tool_usage_history)]
          /\ api' = [api EXCEPT !.op = "get", !.prev = api.op, !.holder = holder]
    /\ UNCHANGED <<storeVars, turn, tool_usage_history, trace, extract, reqVars>>

\* The holder of a returned list appends an element to it or removes its last
\* element.
MutateView ==
    /\ \E holder \in Holders :
          /\ views[holder].held
          /\ \E items \in { Append(views[holder].items, ForeignRecord) }
                           \cup { SubSeq(views[holder].items, 1, Len(views[holder].items) - 1) } :
                /\ items # views[holder].items
                /\ Len(items) <= MaxRecords
                /\ tool_usage_history' = IF views[holder].live THEN items
                                         ELSE tool_usage_history
                /\ views' = [Aliased(views, tool_usage_history') EXCEPT ![holder].items = items]
          /\ api' = [api EXCEPT !.op = "mutate", !.prev = api.op, !.holder = holder]
    /\ UNCHANGED <<storeVars, turn, trace, extract, reqVars>>

NextHistory == HistoryExecute \/ ClearToolHistory \/ GetToolUsageHistory \/ MutateView

SpecHistory == InitHistory /\ [][NextHistory]_vars

(***************************************************************************)
(* Properties of one turn of the pipeline (SpecAgent)                      *)
(***************************************************************************)
Stages == {"idle", "received", "analyzed", "planned", "executed", "responded", "errored"}

InTrace(ev, i) == \E k \in 1..Len(trace) : trace[k] = Event(ev, i)

\* Every call of the list names its operation by a string, or by nothing.
AllNamed(tool_decisions) ==
    \A i \in 1..Len(tool_decisions) : tool_decisions[i].tool_name # UnhashableName

\* The validation pass of lines 136-144 turns the call down.
Rejected(decision) ==
    decision.tool_name = "restock_book" /\ quantity_or_zero(decision.parameters) <= 0

\* The number of calls execute_tools has gone through.
Processed ==
    IF turn.pc = "planned" THEN turn.next - 1
    ELSE IF turn.pc \in {"executed", "responded"} THEN Len(turn.tool_decisions)
    ELSE 0

\* C8: process_request never raises.  A turn ends in one of two ways, and
\* until then a next stage can always run.  When an exception escaped a stage,
\* the result is the apologetic message embedding the reason of the exception,
\* with an empty tools_used, an empty tool_results and needed_tools = FALSE;
\* otherwise, whatever the Completion Service did at analysis, planning and
\* synthesis, the result holds the final response, the analysis, the planned
\* calls, their results and the needs_tools flag of the analysis.
C8_ProcessRequestNeverRaises ==
    /\ turn.pc \in Stages
    /\ (turn.exc # "") <=> (turn.pc = "errored")
    /\ turn.pc \notin {"responded", "errored"} => ENABLED NextAgent
    /\ turn.pc = "errored" =>
          /\ turn.response.final_response = FinalText("encountered_error", turn.exc)
          /\ turn.response.tools_used = <<>>
          /\ turn.response.tool_results = <<>>
          /\ turn.response.needed_tools = FALSE
    /\ turn.pc = "responded" =>
          /\ turn.response.final_response.kind \in {"synthesized", "apology", "high_traffic"}
          /\ turn.response.analysis = turn.analysis
          /\ turn.response.tools_used = turn.tool_decisions
          /\ turn.response.tool_results = turn.tool_results
          /\ turn.response.needed_tools = turn.analysis.needs_tools

\* C8 witness: an exception left execute_tools after a first call had been
\* executed, and the turn returned the errored result.
C8_Witness ==
    /\ turn.pc = "errored"
    /\ turn.exc = "unhashable type"
    /\ Len(turn.tool_results) >= 1
    /\ turn.response.tool_results = <<>>

\* C9: execute_tools gives exactly one result per call, in the order of the
\* calls, result i carrying the tool_name of call i, whatever the other calls
\* did; and it returns for every list whose calls are named.
C9_OneResultPerCallInOrder ==
    /\ Len(turn.tool_results) = Processed \/ turn.pc = "errored"
    /\ \A i \in 1..Len(turn.tool_results) :
          turn.tool_results[i].tool_name = turn.tool_decisions[i].tool_name
    /\ (turn.pc = "errored" /\ turn.tool_decisions # <<>>) => ~AllNamed(turn.tool_decisions)
    /\ (turn.pc = "planned" /\ AllNamed(turn.tool_decisions)) => ENABLED ExecuteTool

\* C9 witness: execute_tools returned for a list of two calls of which the
\* first failed and the second succeeded.
C9_Witness ==
    /\ turn.pc = "executed"
    /\ Len(turn.tool_decisions) = 2
    /\ Len(turn.tool_results) = 2
    /\ ~turn.tool_results[1].success
    /\ turn.tool_results[2].success

\* C10: a call whose operation name is not in the registry gets a result with
\* success = FALSE and the unknown-operation message, run() is not called for
\* it, and once execute_tools has returned every later call has its result,
\* run() having been called for each later call that is registered and passes
\* the validation pass.
C10_UnknownOperationFailsAlone ==
    \A i \in 1..Len(turn.tool_results) :
        (turn.tool_decisions[i].tool_name \notin Tools) =>
            /\ ~turn.tool_results[i].success
            /\ turn.tool_results[i].result = Text("", Msg("unknown_tool", "", 0, 0))
            /\ ~InTrace("handler", i)
            /\ (turn.pc \in {"executed", "responded"}) =>
                  \A j \in (i + 1)..Len(turn.tool_decisions) :
                      /\ j <= Len(turn.tool_results)
                      /\ (turn.tool_decisions[j].tool_name \in Tools
                            /\ ~Rejected(turn.tool_decisions[j])) => InTrace("handler", j)

\* C10 witness: the first call named an unknown operation, the second call
\* restocked a book and succeeded.
C10_Witness ==
    /\ turn.pc = "executed"
    /\ Len(turn.tool_decisions) = 2
    /\ turn.tool_decisions[1].tool_name = "send_email"
    /\ turn.tool_decisions[2].tool_name = "restock_book"
    /\ turn.tool_results[2].success
    /\ InTrace("handler", 2)
    /\ ~InTrace("handler", 1)

\* C11: execute_tools appends exactly one usage record for every call it
\* processes, whether the call succeeded, failed, named an unknown operation
\* or was turned down by the validation pass: after N calls the usage history
\* is N records longer (it is empty when the turn starts), record i being the
\* record of call i.
C11_OneUsageRecordPerCall ==
    turn.pc \in {"planned", "executed", "responded"} =>
        /\ Len(tool_usage_history) = Processed
        /\ \A i \in 1..Len(tool_usage_history) :
              tool_usage_history[i].tool_name = turn.tool_decisions[i].tool_name

\* The texts a handler returns when it turns a request down.
ValidationFailureTexts ==
    {"customer_not_found", "book_not_found", "not_enough_stock",
     "quantity_must_be_positive", "item_needs_isbn_and_quantity"}

\* C12: when an operation fails validation inside its handler (customer not
\* found, item not found, non-positive or missing quantity, insufficient
\* stock), the result of that call has success = FALSE and carries the
\* reason, and once execute_tools has returned every other call has its result.
C12_HandlerValidationFailureIsFailedResult ==
    \A i \in 1..Len(turn.tool_results) :
        (InTrace("handler", i)
           /\ turn.tool_results[i].result.msg.kind \in ValidationFailureTexts) =>
            /\ ~turn.tool_results[i].success
            /\ (turn.pc \in {"executed", "responded"}) =>
                  Len(turn.tool_results) = Len(turn.tool_decisions)

\* C13: an exception raised by a handler during execute_tools becomes a
\* result with success = FALSE whose text carries the message of the
\* exception; no exception but that of an unnamed call or of the planning
\* stage ends the turn, and once execute_tools has returned every later call
\* has its result, run() having been called for each later call that is
\* registered and passes the validation pass.
C13_HandlerExceptionIsCaught ==
    /\ turn.exc \in {"", "unhashable type", "can only join an iterable"}
    /\ \A i \in 1..Len(turn.tool_results) :
          (turn.tool_results[i].result.prefix = "Error executing tool") =>
              /\ InTrace("handler", i)
              /\ ~turn.tool_results[i].success
              /\ turn.tool_results[i].result.msg # NoMsg
              /\ (turn.pc \in {"executed", "responded"}) =>
                    \A j \in (i + 1)..Len(turn.tool_decisions) :
                        /\ j <= Len(turn.tool_results)
                        /\ (turn.tool_decisions[j].tool_name \in Tools
                              /\ ~Rejected(turn.tool_decisions[j])) => InTrace("handler", j)

\* C13 witness: the first call raised (the storage layer reported a lock to
\* the order transaction), the second call ran and succeeded.
C13_Witness ==
    /\ turn.pc = "executed"
    /\ Len(turn.tool_decisions) = 2
    /\ turn.tool_decisions[1].tool_name = "create_order"
    /\ turn.tool_results[1].result =
          Text("Error executing tool", Msg("name 'time' is not defined", "", 0, 0))
    /\ ~turn.tool_results[1].success
    /\ turn.tool_results[2].success
    /\ InTrace("handler", 2)

(***************************************************************************)
(* Properties of _parse_json_response (SpecParse)                          *)
(***************************************************************************)
\* Prose and fence markers: tokens that are no part of a JSON value.
IsProse(t) == \A i \in 1..Len(t) : t[i] \in {"w", "fence_json", "fence"}

\* t is one well-formed JSON object or array.
IsObjectOrArray(t) ==
    Len(t) > 0 /\ t[1] \in {"[", "{"} /\ EndOfValue(t, 1) = Len(t) + 1

\* C14: for every well-formed JSON object or array (objects that hold arrays,
\* arrays that hold objects and strings that hold bracket characters
\* included) between any prose, with or without fence markers,
\* _parse_json_response returns exactly that value.
C14_ExtractsEmbeddedJson ==
    extract.pc = "returned" =>
        \A a \in 1..Len(extract.text) : \A b \in a..Len(extract.text) :
            (/\ IsProse(SubSeq(extract.text, 1, a - 1))
             /\ IsProse(SubSeq(extract.text, b + 1, Len(extract.text)))
             /\ IsObjectOrArray(SubSeq(extract.text, a, b))) =>
                extract.out = Value(SubSeq(extract.text, a, b))

\* C15: for every input that holds no parsable JSON object or array (empty
\* text, prose only, unbalanced brackets, a balanced bracketed part that is
\* not valid JSON), _parse_json_response returns the empty object.
C15_NothingExtractableGivesEmptyObject ==
    (extract.pc = "returned"
       /\ \A a \in 1..Len(extract.text) : \A b \in a..Len(extract.text) :
             ~IsObjectOrArray(SubSeq(extract.text, a, b))) =>
        extract.out = EmptyObject

(***************************************************************************)
(* Properties of the usage history (SpecHistory) and of the turn           *)
(***************************************************************************)
\* The results with which a storage lock ends an operation: the lock texts
\* of restock_book and update_price, and what the order transaction raises
\* when the storage layer reports a lock.
LockFailureTexts ==
    LockIndicatorTexts \cup {"name 'time' is not defined", "error_creating_order_after_retry"}

\* C16: a storage lock is never silently dropped: in every turn in which an
\* executed operation ended in a lock failure, the final text is the fixed
\* try-again message and not a synthesized narrative.
C16_LockFailureGivesTryAgain ==
    (turn.pc = "responded"
       /\ \E i \in 1..Len(turn.tool_results) :
             turn.tool_results[i].result.msg.kind \in LockFailureTexts) =>
        turn.response.final_response.kind = "high_traffic"

\* C17: after clear_tool_history, get_tool_usage_history returns the empty
\* sequence whatever was executed before; a second clear leaves it empty; and
\* the records appended since the last clear are the only ones returned.
C17_ClearEmptiesHistory ==
    /\ api.op = "clear" => tool_usage_history = <<>>
    /\ (api.op = "get" /\ api.prev = "clear") => views[api.holder].items = <<>>
    /\ (api.op = "get" /\ api.cleared) => views[api.holder].items = api.since_clear

\* C17 witness: records were dropped by a clear, others were appended after
\* it, and get_tool_usage_history has just returned.
C17_Witness ==
    /\ api.op = "get"
    /\ api.dropped
    /\ api.since_clear # <<>>
    /\ views[api.holder].items = api.since_clear

\* C18: get_tool_usage_history returns a copy: a list returned earlier is not
\* changed by later appends or by clear_tool_history, and adding or removing
\* elements of a returned list does not change the agent's log.
C18_ReturnsCopy ==
    [][ /\ api'.op \in {"execute", "clear"} =>
              \A holder \in Holders : views'[holder] = views[holder]
        /\ api'.op = "mutate" => tool_usage_history' = tool_usage_history ]_vars

\* C18 witness: a holder changed the list it was given, the log was appended
\* to or cleared afterwards, and the two differ.
C18_Witness ==
    /\ api.op \in {"execute", "clear"}
    /\ api.prev = "mutate"
    /\ views[api.holder].held
    /\ views[api.holder].items # tool_usage_history
    /\ views[api.holder].items # <<>>

(***************************************************************************)
(* Order of the stages of a turn (SpecAgent)                               *)
(***************************************************************************)
\* The place of an event in the order analysis, planning, execution, synthesis.
StageRank(e) ==
    IF e.ev = "analysis" THEN 1
    ELSE IF e.ev = "planning" THEN 2
    ELSE IF e.ev = "handler" THEN 3
    ELSE 4

\* C19: within one turn the stages run in the order analysis, planning,
\* execution, synthesis: the planning call comes after the analysis call, no
\* handler runs before the planning call has returned its list, handlers run
\* in the order of the calls, synthesis is not started before every planned
\* call has a result, and no stage runs twice.
C19_StagesInOrder ==
    /\ \A k \in 1..Len(trace) : \A l \in (k + 1)..Len(trace) :
          /\ StageRank(trace[k]) <= StageRank(trace[l])
          /\ StageRank(trace[k]) = StageRank(trace[l]) =>
                (trace[k].ev = "handler" /\ trace[k].i < trace[l].i)
    /\ trace # <<>> => trace[1] = Event("analysis", 0)
    /\ InTrace("handler", turn.next) => FALSE
    /\ (\E i \in 1..Len(turn.tool_decisions) : InTrace("handler", i)) => InTrace("planning", 0)
    /\ (InTrace("synthesis", 0) \/ turn.pc = "responded") =>
          Len(turn.tool_results) = Len(turn.tool_decisions)

\* C19 witness: a turn went through the four stages, with two handlers run.
C19_Witness ==
    /\ turn.pc = "responded"
    /\ trace = << Event("analysis", 0), Event("planning", 0), Event("handler", 1),
                  Event("handler", 2), Event("synthesis", 0) >>

\* The analysis asked for operations and planning gave a list of calls.
OperationsPlanned ==
    /\ turn.analysis.needs_tools
    /\ turn.analysis.tools_needed = "names"
    /\ turn.tool_decisions # <<>>

\* C20: no handler is invoked in a turn unless the analysis reported
\* operations needed with a non-empty operation list and planning gave a
\* non-empty list of calls; every other turn leaves the store and the usage
\* history as they were and returns an empty tool_results.
C20_NoOperationWithoutPlan ==
    /\ (\E k \in 1..Len(trace) : trace[k].ev = "handler") => OperationsPlanned
    /\ ~OperationsPlanned =>
          /\ db = call.pre
          /\ tool_usage_history = <<>>
          /\ turn.tool_results = <<>>
          /\ turn.pc \in {"responded", "errored"} => turn.response.tool_results = <<>>

\* C20 witness: the analysis asked for operations, planning gave no call, and
\* the turn responded without any operation.
C20_Witness ==
    /\ turn.pc = "responded"
    /\ turn.analysis.needs_tools
    /\ turn.analysis.tools_needed = "names"
    /\ InTrace("planning", 0)
    /\ turn.tool_decisions = <<>>
    /\ turn.response.tool_results = <<>>
    /\ db = call.pre

(***************************************************************************)
(* Planning from the text of the Completion Service                        *)
(***************************************************************************)
\* The values of a JSON array, one token sequence each, from position i on.
RECURSIVE Elements(_, _)
Elements(t, i) ==
    IF i >= Len(t) \/ EndOfValue(t, i) = 0 THEN <<>>
    ELSE << SubSeq(t, i, EndOfValue(t, i) - 1) >> \o Elements(t, EndOfValue(t, i))

\* Line 261: what execute_tools and the log line see of one element of the
\* planned list.  No object of these texts has the key tool_name ("k" is
\* another key), so tool_decision.get("tool_name") is None.
as_decision(v) ==
    [is_dict |-> v[1] = "{", tool_name |-> NoneName, parameters |-> NoParams]

\* Line 251: the value _parse_json_response made of the planning text.
planning_outcome(parsed) ==
    IF parsed.tokens[1] = "["
    THEN [ok |-> TRUE, shape |-> "list",
          calls |-> [i \in 1..Len(Elements(parsed.tokens, 2)) |->
                        as_decision(Elements(parsed.tokens, 2)[i])]]
    ELSE IF parsed.tokens[1] = "{"
    THEN [ok |-> TRUE, shape |-> "dict", calls |-> << as_decision(parsed.tokens) >>]
    ELSE [ok |-> TRUE, shape |-> "scalar", calls |-> <<>>]

ServiceFailure == [ok |-> FALSE, shape |-> "", calls |-> <<>>]

InitPlan == InitParse

\* Lines 249-266: the Completion Service answers the planning prompt with the
\* text, or fails; determine_tool_parameters returns.
PlanFromText ==
    /\ extract.pc = "called"
    /\ turn.pc = "idle"
    /\ \E service_ok \in BOOLEAN :
          \E outcome \in { IF service_ok
                           THEN planning_outcome(parse_json_response(extract.text))
                           ELSE ServiceFailure } :
             \E r \in { determine_tool_parameters("names", outcome) } :
                /\ extract' = [extract EXCEPT
                                  !.pc = IF service_ok THEN "returned" ELSE "failed",
                                  !.out = IF service_ok THEN parse_json_response(extract.text)
                                          ELSE [type |-> "none"]]
                /\ turn' = [turn EXCEPT
                               !.pc = IF r.tool_decisions = <<>> THEN "executed" ELSE "planned",
                               !.analysis = [needs_tools |-> TRUE, tools_needed |-> "names",
                                             reasoning |-> "given", action_type |-> "other"],
                               !.tool_decisions = r.tool_decisions]
                /\ trace' = Append(trace, Event("planning", 0))
    /\ UNCHANGED <<storeVars, tool_usage_history, views, api, reqVars>>

NextPlan == PlanFromText \/ ExecuteTool \/ Respond

SpecPlan == InitPlan /\ [][NextPlan]_vars

\* The text holds no JSON value: no object, no array, and it is not a scalar
\* by itself.
NothingToExtract(text) ==
    /\ \A a \in 1..Len(text) : \A b \in a..Len(text) : ~IsObjectOrArray(SubSeq(text, a, b))
    /\ ~(Len(cleaned_text(text)) = 1 /\ cleaned_text(text)[1] \in {"1", "s]"})

\* C21: determine_tool_parameters always returns a list: a planning
\* extraction that is a single object becomes the one-element list holding
\* that object, and a failed call or a response from which nothing could be
\* extracted becomes the empty list, so that no operation is executed for it.
C21_PlanningAlwaysGivesList ==
    /\ turn.exc = ""
    /\ (extract.pc = "returned" /\ IsObjectOrArray(extract.text) /\ extract.text[1] = "{") =>
          turn.tool_decisions = << as_decision(extract.text) >>
    /\ (extract.pc = "failed"
          \/ (extract.pc = "returned" /\ NothingToExtract(extract.text))) =>
          /\ turn.tool_decisions = <<>>
          /\ turn.tool_results = <<>>

(***************************************************************************)
(* Analysis from the text of the Completion Service                        *)
(***************************************************************************)
\* Line 92: the value _parse_json_response made of the analysis text.  No
\* object of these texts has a key of an analysis ("k" is another key).
analysis_outcome(parsed) ==
    IF parsed.tokens[1] = "["
    THEN [ok |-> TRUE, d |-> EmptyDict,
          shape |-> IF Elements(parsed.tokens, 2) = <<>> THEN "empty_list" ELSE "list"]
    ELSE IF parsed.tokens[1] = "{"
    THEN [ok |-> TRUE, shape |-> "dict", d |-> EmptyDict]
    ELSE [ok |-> TRUE, shape |-> "scalar", d |-> EmptyDict]

AnalysisFailure == [ok |-> FALSE, shape |-> "", d |-> EmptyDict]

InitAnalyze == InitParse

\* Lines 90-121: the Completion Service answers the analysis prompt with the
\* text, or fails; analyze_request returns.
AnalyzeFromText ==
    /\ extract.pc = "called"
    /\ turn.pc = "idle"
    /\ \E service_ok \in BOOLEAN :
          /\ extract' = [extract EXCEPT
                            !.pc = IF service_ok THEN "returned" ELSE "failed",
                            !.out = IF service_ok THEN parse_json_response(extract.text)
                                    ELSE [type |-> "none"]]
          /\ turn' = [turn EXCEPT
                         !.pc = "analyzed",
                         !.analysis = analyze_request(
                                         IF service_ok
                                         THEN analysis_outcome(parse_json_response(extract.text))
                                         ELSE AnalysisFailure)]
    /\ trace' = Append(trace, Event("analysis", 0))
    /\ UNCHANGED <<storeVars, tool_usage_history, views, api, reqVars>>

NextAnalyze == AnalyzeFromText \/ SkipTools \/ Respond

SpecAnalyze == InitAnalyze /\ [][NextAnalyze]_vars

\* C22: when the analysis stage fails, because the Completion Service call
\* fails or because nothing can be extracted from its response,
\* analyze_request returns needs_tools = FALSE with an empty operation list
\* and an analysis that records the failure, and the turn goes on to
\* synthesis.
C22_AnalysisFailureIsRecorded ==
    (turn.pc # "idle"
       /\ (extract.pc = "failed"
             \/ (extract.pc = "returned" /\ NothingToExtract(extract.text)))) =>
        /\ ~turn.analysis.needs_tools
        /\ turn.analysis.tools_needed = "empty_list"
        /\ turn.analysis.reasoning = "Error during analysis"
        /\ turn.analysis.action_type = "error"
        /\ turn.exc = ""
        /\ turn.pc \in {"analyzed", "executed", "responded"}

(***************************************************************************)
(* Synthesis (SpecAgent)                                                   *)
(***************************************************************************)
\* The number of Completion Service calls for synthesis among the first n
\* events of the turn.
RECURSIVE SynthesisCalls(_)
SynthesisCalls(n) ==
    IF n = 0 THEN 0
    ELSE SynthesisCalls(n - 1) + (IF trace[n].ev = "synthesis" THEN 1 ELSE 0)

\* C23: if the text of a result of the turn holds a lock or busy indicator,
\* generate_final_response returns the fixed high-traffic message and makes
\* no Completion Service call; otherwise it makes exactly one call and
\* returns the text of the answer (the fixed apology when the call fails).
C23_LockIndicatorShortCircuits ==
    turn.pc = "responded" =>
        IF \E i \in 1..Len(turn.tool_results) :
              turn.tool_results[i].result.msg.kind \in LockIndicatorTexts
        THEN /\ turn.response.final_response = FinalText("high_traffic", "")
             /\ SynthesisCalls(Len(trace)) = 0
        ELSE /\ turn.response.final_response.kind \in {"synthesized", "apology"}
             /\ SynthesisCalls(Len(trace)) = 1
             /\ trace[Len(trace)] = Event("synthesis", 0)

\* C23 witness: of two results the second holds the lock text of a restock,
\* and the turn answered with the high-traffic message without a synthesis
\* call.
C23_Witness ==
    /\ turn.pc = "responded"
    /\ Len(turn.tool_results) = 2
    /\ turn.tool_results[1].success
    /\ turn.tool_results[2].result.msg.kind = "error_restocking_book: database is locked"
    /\ turn.response.final_response.kind = "high_traffic"
    /\ ~InTrace("synthesis", 0)

(***************************************************************************)
(* server/database.py: one get_db_cursor scope after another               *)
(***************************************************************************)
\* Lines 222-231: a new connection and cursor for the body.
get_db_cursor_enter(d) ==
    [conn |-> "open", in_transaction |-> FALSE, before |-> d, pending |-> d,
     body |-> "", result |-> "", raised |-> FALSE]

get_db_cursor_finally_KeepsOpen(s, exit) ==
    [s EXCEPT !.body = exit, !.raised = (exit = "raise")]

\* Lines 232-242: commit or rollback ends the transaction, and the
\* finally clause closes the cursor and the connection.
get_db_cursor_finally(s, exit) ==
    [s EXCEPT !.conn = "closed", !.in_transaction = FALSE,
              !.body = exit, !.raised = (exit = "raise")]

\* The ways the body of a `with get_db_cursor()' block is left.
BodyExits == {"end", "return", "raise"}

InitScope == InitHistory

\* Lines 222-231: connect, set the pragmas, hand the cursor to the body.
EnterScope ==
    /\ scope.conn \in {"none", "closed"}
    /\ scope' = get_db_cursor_enter(db)
    /\ UNCHANGED <<storeVars, turn, tool_usage_history, trace, extract, views, api, chat, requests>>

\* The body writes a price (UPDATE books SET price) or a stock (UPDATE books
\* SET stock_quantity): the first write begins the transaction.
ScopeWrite ==
    /\ scope.conn = "open"
    /\ \E isbn \in Isbns :
          \/ \E new_price \in Prices :
                /\ scope.pending.books[isbn].price # new_price
                /\ scope' = [scope EXCEPT !.in_transaction = TRUE,
                                          !.pending.books[isbn].price = new_price]
          \/ \E new_stock \in 0..MaxStock :
                /\ scope.pending.books[isbn].stock # new_stock
                /\ scope' = [scope EXCEPT !.in_transaction = TRUE,
                                          !.pending.books[isbn].stock = new_stock]
    /\ UNCHANGED <<storeVars, turn, tool_usage_history, trace, extract, views, api, chat, requests>>

\* Lines 231-242: the body is left: by reaching its end or by a return, and
\* the generator goes on to conn.commit(); or by an exception, which is
\* thrown into the generator at the yield: rollback, raise.  Then finally:
\* the cursor and the connection are closed.
LeaveScope ==
    /\ scope.conn = "open"
    /\ \E exit \in BodyExits :
          /\ db' = get_db_cursor_exit(db, scope.pending, exit = "raise")
          /\ scope' = get_db_cursor_finally(scope, exit)
    /\ UNCHANGED <<call, txn, wlock, turn, tool_usage_history, trace, extract, views, api, chat, requests>>

NextScope == EnterScope \/ ScopeWrite \/ LeaveScope

SpecScope == InitScope /\ [][NextScope]_vars

\* C30: a get_db_cursor scope commits its writes exactly when the body ends
\* without raising, an early return included; when the body raises it rolls
\* all of them back and raises again; in both cases the connection is closed
\* and no transaction is left open.
C30_ScopeCommitsOrRollsBack ==
    scope.conn = "closed" =>
        /\ ~scope.in_transaction
        /\ scope.body \in {"end", "return"} => (db = scope.pending /\ ~scope.raised)
        /\ scope.body = "raise" => (db = scope.before /\ scope.raised)

\* C30 witness: a body wrote and left through a return, and its writes are
\* committed.
C30_Witness ==
    /\ scope.conn = "closed"
    /\ scope.body = "return"
    /\ scope.pending # scope.before
    /\ db = scope.pending

(***************************************************************************)
(* server/main.py chat_endpoint: storage scopes and service calls of a     *)
(* chat turn                                                               *)
(***************************************************************************)
chatFrame == <<call, txn, wlock, turn, tool_usage_history, trace, extract, views, api, requests>>

\* gemini_agent.py 91, 250, 310: the three generate_content calls.
ServiceCalls == {"analysis", "planning", "synthesis"}

InitChat == InitHistory

\* main.py 311: `with get_db_cursor() as cursor' of step 1.
ChatOpenUserScope ==
    /\ chat.pc = "idle"
    /\ scope' = get_db_cursor_enter(db)
    /\ chat' = [IdleChat EXCEPT !.pc = "saving_user"]
    /\ UNCHANGED <<db, chatFrame>>

\* main.py 312-325: the session row and the user message; the block ends
\* and commits, or a storage error leaves it and the endpoint answers 500
\* (lines 375-378).
ChatCloseUserScope ==
    /\ chat.pc = "saving_user"
    /\ \E exit \in {"end", "raise"} :
          /\ scope' = get_db_cursor_finally([scope EXCEPT !.in_transaction = TRUE], exit)
          /\ chat' = IF exit = "end"
                     THEN [chat EXCEPT !.pc = "analysis", !.user_saved = TRUE]
                     ELSE [chat EXCEPT !.pc = "done", !.status = 500]
    /\ UNCHANGED <<db, chatFrame>>

\* main.py 328, gemini_agent.py 91: analyze_request calls the service.
ChatAnalyzeBegin ==
    /\ chat.pc = "analysis"
    /\ chat' = [chat EXCEPT !.pc = "analysis_call", !.service = "analysis"]
    /\ UNCHANGED <<db, scope, chatFrame>>

\* gemini_agent.py 92-121, 393-398: the call returns or fails; tools are
\* planned only when the analysis asks for them.
ChatAnalyzeEnd ==
    /\ chat.pc = "analysis_call"
    /\ \E needs_tools \in BOOLEAN :
          chat' = [chat EXCEPT !.pc = IF needs_tools THEN "planning" ELSE "synthesis",
                               !.service = "", !.needs_tools = needs_tools]
    /\ UNCHANGED <<db, scope, chatFrame>>

\* gemini_agent.py 250: determine_tool_parameters calls the service.
ChatPlanBegin ==
    /\ chat.pc = "planning"
    /\ chat' = [chat EXCEPT !.pc = "planning_call", !.service = "planning"]
    /\ UNCHANGED <<db, scope, chatFrame>>

\* gemini_agent.py 251-266: the planned calls (none when the call fails).
ChatPlanEnd ==
    /\ chat.pc = "planning_call"
    /\ \E n \in 0..MaxCalls :
          chat' = [chat EXCEPT !.pc = "executing", !.service = "", !.calls_left = n]
    /\ UNCHANGED <<db, scope, chatFrame>>

\* tools.py 46, 91, 309, 344, ...: the handler of the next call opens its
\* scope.
ChatOpenHandlerScope ==
    /\ chat.pc = "executing"
    /\ chat.calls_left > 0
    /\ scope' = get_db_cursor_enter(db)
    /\ chat' = [chat EXCEPT !.pc = "in_handler"]
    /\ UNCHANGED <<db, chatFrame>>

\* tools.py 322-326, 358-362: the handler updates a stock or a price.
ChatHandlerWrite ==
    /\ chat.pc = "in_handler"
    /\ ~scope.in_transaction
    /\ \E isbn \in Isbns :
          \/ \E new_price \in Prices :
                /\ scope.pending.books[isbn].price # new_price
                /\ scope' = [scope EXCEPT !.in_transaction = TRUE,
                                          !.pending.books[isbn].price = new_price]
          \/ /\ scope.pending.books[isbn].stock < MaxStock
             /\ scope' = [scope EXCEPT !.in_transaction = TRUE,
                                       !.pending.books[isbn].stock = @ + 1]
    /\ UNCHANGED <<db, chat, chatFrame>>

\* The handler's block is left; a storage error may be a lock error, whose
\* text is the handler's result.
ChatCloseHandlerScope ==
    /\ chat.pc = "in_handler"
    /\ \E exit \in BodyExits, locked \in BOOLEAN :
          /\ locked => exit = "raise"
          /\ db' = get_db_cursor_exit(db, scope.pending, exit = "raise")
          /\ scope' = get_db_cursor_finally(scope, exit)
          /\ chat' = [chat EXCEPT !.pc = "executing", !.calls_left = @ - 1,
                                  !.lock_seen = @ \/ locked]
    /\ UNCHANGED chatFrame

\* gemini_agent.py 130-168: a call of an unknown tool, or one the
\* validation pass rejects, reaches no handler.
ChatCallWithoutHandler ==
    /\ chat.pc = "executing"
    /\ chat.calls_left > 0
    /\ chat' = [chat EXCEPT !.calls_left = @ - 1, !.no_handler = @ + 1]
    /\ UNCHANGED <<db, scope, chatFrame>>

\* gemini_agent.py 409: every call is done.
ChatExecuteDone ==
    /\ chat.pc = "executing"
    /\ chat.calls_left = 0
    /\ chat' = [chat EXCEPT !.pc = "synthesis"]
    /\ UNCHANGED <<db, scope, chatFrame>>

\* gemini_agent.py 310: generate_final_response calls the service.
ChatSynthesizeBegin ==
    /\ chat.pc = "synthesis"
    /\ ~chat.lock_seen
    /\ chat' = [chat EXCEPT !.pc = "synthesis_call", !.service = "synthesis"]
    /\ UNCHANGED <<db, scope, chatFrame>>

\* gemini_agent.py 311-319: the call returns or fails.
ChatSynthesizeEnd ==
    /\ chat.pc = "synthesis_call"
    /\ chat' = [chat EXCEPT !.pc = "responded", !.service = ""]
    /\ UNCHANGED <<db, scope, chatFrame>>

\* gemini_agent.py 272-280: a lock indicator answers without the service.
ChatSynthesizeSkip ==
    /\ chat.pc = "synthesis"
    /\ chat.lock_seen
    /\ chat' = [chat EXCEPT !.pc = "responded"]
    /\ UNCHANGED <<db, scope, chatFrame>>

\* main.py 331: `with get_db_cursor() as cursor' of step 3.
ChatOpenAssistantScope ==
    /\ chat.pc = "responded"
    /\ scope' = get_db_cursor_enter(db)
    /\ chat' = [chat EXCEPT !.pc = "saving_assistant"]
    /\ UNCHANGED <<db, chatFrame>>

\* main.py 332-378: the assistant message and the tool calls; the block
\* ends and the endpoint answers, or a storage error makes it answer 500.
ChatCloseAssistantScope ==
    /\ chat.pc = "saving_assistant"
    /\ \E exit \in {"end", "raise"} :
          /\ scope' = get_db_cursor_finally([scope EXCEPT !.in_transaction = TRUE], exit)
          /\ chat' = [chat EXCEPT !.pc = "done",
                                  !.assistant_saved = (exit = "end"),
                                  !.status = IF exit = "end" THEN 200 ELSE 500]
    /\ UNCHANGED <<db, chatFrame>>

\* The next request of the session.
ChatNextRequest ==
    /\ chat.pc = "done"
    /\ chat' = IdleChat
    /\ scope' = NoScope
    /\ UNCHANGED <<db, chatFrame>>

NextChat ==
    \/ ChatOpenUserScope
    \/ ChatCloseUserScope
    \/ ChatAnalyzeBegin
    \/ ChatAnalyzeEnd
    \/ ChatPlanBegin
    \/ ChatPlanEnd
    \/ ChatOpenHandlerScope
    \/ ChatHandlerWrite
    \/ ChatCloseHandlerScope
    \/ ChatCallWithoutHandler
    \/ ChatExecuteDone
    \/ ChatSynthesizeBegin
    \/ ChatSynthesizeEnd
    \/ ChatSynthesizeSkip
    \/ ChatOpenAssistantScope
    \/ ChatCloseAssistantScope
    \/ ChatNextRequest

SpecChat == InitChat /\ [][NextChat]_vars

\* C24: at every moment of a chat turn, no storage scope of the turn is open
\* (and no transaction of it is pending) while an analysis, planning or
\* synthesis call of the turn is in progress.
C24_NoScopeOpenDuringServiceCall ==
    chat.service \in ServiceCalls => (scope.conn # "open" /\ ~scope.in_transaction)

\* C24 witness: the synthesis call is in progress after the user message was
\* saved and a handler committed a write, and no scope is open.
C24_Witness ==
    /\ chat.service = "synthesis"
    /\ chat.user_saved
    /\ scope.conn = "closed"
    /\ scope.body \in {"end", "return"}
    /\ scope.pending # scope.before
    /\ db = scope.pending

(***************************************************************************)
(* Validation pass of execute_tools (SpecAgent)                            *)
(***************************************************************************)
\* A restock call whose quantity is missing, zero or negative.
NonPositiveRestock(decision) ==
    /\ decision.tool_name = "restock_book"
    /\ \/ decision.parameters.quantity = <<>>
       \/ decision.parameters.quantity[1] <= 0

\* C25: a restock call whose quantity is missing, zero or negative is turned
\* down by the validation pass of execute_tools: the step that goes through
\* the call appends one result with success = FALSE, invokes no handler and
\* leaves the store, the stock of the item included, as it was.
C25_NonPositiveRestockIsRejected ==
    [][ ( /\ turn.pc = "planned"
          /\ turn.next <= Len(turn.tool_decisions)
          /\ NonPositiveRestock(turn.tool_decisions[turn.next])
          /\ turn' # turn )
        => /\ Len(turn'.tool_results) = Len(turn.tool_results) + 1
           /\ turn'.tool_results[Len(turn'.tool_results)].tool_name = "restock_book"
           /\ ~turn'.tool_results[Len(turn'.tool_results)].success
           /\ trace' = trace
           /\ db' = db ]_vars

\* C25 witness: execute_tools went through a restock call with quantity 0 and
\* one with no quantity; each has a failed result and no handler ran.
C25_Witness ==
    /\ turn.pc = "executed"
    /\ Len(turn.tool_decisions) = 2
    /\ turn.tool_decisions[1].tool_name = "restock_book"
    /\ turn.tool_decisions[1].parameters.quantity = <<0>>
    /\ turn.tool_decisions[2].tool_name = "restock_book"
    /\ turn.tool_decisions[2].parameters.quantity = <<>>
    /\ Len(turn.tool_results) = 2
    /\ \A i \in 1..2 : ~turn.tool_results[i].success /\ ~InTrace("handler", i)

(***************************************************************************)
(* The confirmation re-read of the order transaction (SpecOrder)           *)
(***************************************************************************)
\* C26: when the re-read of the order just inserted finds no row, the
\* invocation returns the error text of the failed confirmation (none of the
\* validation failures, not a success), after the one attempt, and no stock
\* decrement and no line row of that order is committed.
C26_MissingConfirmationLeavesNothing ==
    (Returned /\ call.out.msg.kind = "order_not_created") =>
        /\ ~call.out.raised
        /\ call.out.msg.kind \notin ValidationFailureTexts \cup {"order_created"}
        /\ call.out.attempts = 1
        /\ \A isbn \in Isbns : db.books[isbn].stock = call.pre.books[isbn].stock
        /\ db.order_items = call.pre.order_items

(***************************************************************************)
(* Failure reasons of the order transaction (SpecOrder)                    *)
(***************************************************************************)
\* C27: an absent customer gives "customer not found" whatever the lines are;
\* otherwise the first failing line, in list order, decides: "item not found"
\* for an unknown item, "invalid quantity" for every quantity <= 0 (zero
\* included), "insufficient stock" with the available quantity when the
\* quantity exceeds the stock.
C27_FailureReasonPrecedence ==
    Returned =>
        /\ call.req.customer_id \notin Customers =>
              (~call.out.raised /\ call.out.msg.kind = "customer_not_found")
        /\ call.req.customer_id \in Customers =>
              \A i \in 1..Len(call.req.items) :
                 FirstFailingLine(i) =>
                    LET item == call.req.items[i]
                    IN  /\ item.isbn = UnknownIsbn =>
                              (~call.out.raised /\ call.out.msg.kind = "book_not_found")
                        /\ (item.isbn \in Isbns /\ item.quantity <= 0) =>
                              (~call.out.raised /\ call.out.msg.kind = "quantity_must_be_positive")
                        /\ ExceedsStock(call.pre.books, item) => InsufficientStockReturned(i)

(***************************************************************************)
(* Order rows under later catalog operations                               *)
(***************************************************************************)
\* The requests placed: every one-line order of a book, and one order of two
\* lines.
LedgerItemLists ==
    { << line >> : line \in [isbn : Isbns, quantity : 1..MaxQty] }
      \cup { << [isbn |-> "X", quantity |-> 1], [isbn |-> "Y", quantity |-> 1] >> }

InitLedger == InitHistory

\* tools.py 88-191: create_order_safe(customer_id, items), the storage layer
\* doing its work or losing the confirmation re-read.
PlaceOrder ==
    /\ Len(db.orders) < MaxOrders
    /\ \E customer_id \in CustomerIds, items \in LedgerItemLists,
          fault \in {"none", "verify_miss"} :
          db' = create_order_safe(db, customer_id, items, 0, fault, 1).db
    /\ UNCHANGED <<call, txn, wlock, agentVars>>

NextLedger == PlaceOrder \/ RestockBook \/ UpdatePrice

SpecLedger == InitLedger /\ [][NextLedger]_vars

\* The line rows of order order_id, in the order they were written.
LinesOf(d, order_id) == SelectSeq(d.order_items, LAMBDA row : row.order_id = order_id)

RECURSIVE SumLines(_, _)
SumLines(rows, n) ==
    IF n = 0 THEN 0 ELSE SumLines(rows, n - 1) + rows[n].unit_price * rows[n].quantity

\* C28: the unit price of an order line and the total of an order are the
\* values at order time.  In every step of the store, every order row and
\* every line row that exists stays as it is, whatever price-update or restock
\* operation the step is; and a step that adds an order gives each of its
\* lines the price its book has at that moment, and the order the sum of
\* these prices times the quantities.
C28_OrderKeepsPriceAtOrderTime ==
    [][ /\ Len(db'.orders) >= Len(db.orders)
        /\ Len(db'.order_items) >= Len(db.order_items)
        /\ \A i \in 1..Len(db.orders) : db'.orders[i] = db.orders[i]
        /\ \A k \in 1..Len(db.order_items) : db'.order_items[k] = db.order_items[k]
        /\ \A k \in (Len(db.order_items) + 1)..Len(db'.order_items) :
              db'.order_items[k].unit_price = db.books[db'.order_items[k].book_isbn].price
        /\ \A i \in (Len(db.orders) + 1)..Len(db'.orders) :
              LET rows == LinesOf(db', db'.orders[i].id)
              IN  db'.orders[i].total_amount = SumLines(rows, Len(rows)) ]_vars

\* C28 witness: an order placed after the start has a line whose book now
\* costs something else and has been restocked to the full.
C28_Witness ==
    \E k \in 1..Len(db.order_items) :
       LET row == db.order_items[k]
       IN  /\ row.order_id > 1
           /\ row.unit_price # db.books[row.book_isbn].price
           /\ db.books[row.book_isbn].stock = MaxStock

(***************************************************************************)
(* Where the extraction starts (SpecParse)                                 *)
(***************************************************************************)
\* C29: when json.loads of the whole cleaned text fails, an array start takes
\* precedence in the scan that follows: if the text holds a "[" anywhere, the
\* part extracted runs from the first "[" to the "]" at which the scan's
\* bracket count comes back to zero, even when a "{" stands earlier; the first
\* "{" (up to the "}" that balances it) is used only when the text holds no
\* "[".  What is returned is the value of that part, or the empty object when
\* there is no such part or it is not valid JSON.
C29_ArrayStartTakesPrecedence ==
    (extract.pc = "returned" /\ json_loads(cleaned_text(extract.text)) = JSONDecodeError) =>
        LET t     == cleaned_text(extract.text)
            first == IF Find(t, "[") # 0 THEN Find(t, "[") ELSE Find(t, "{")
            close == IF Find(t, "[") # 0 THEN ScanClose(t, first, "[", {"]", "s]"}, 0)
                     ELSE IF first # 0 THEN ScanClose(t, first, "{", {"}"}, 0)
                     ELSE 0
            part  == SubSeq(t, first, close)
        IN  extract.out = IF close = 0 \/ t[close] = "s]" \/ json_loads(part) = JSONDecodeError
                          THEN EmptyObject
                          ELSE Value(part)

\* C29 witness: the text is no JSON as a whole, a "{" stands before the first
\* "[", and the array that starts at the "[" is returned.
C29_Witness ==
    /\ extract.pc = "returned"
    /\ json_loads(cleaned_text(extract.text)) = JSONDecodeError
    /\ Find(cleaned_text(extract.text), "{") # 0
    /\ Find(cleaned_text(extract.text), "{") < Find(cleaned_text(extract.text), "[")
    /\ extract.out = Value(<<"[", "1", "]">>)

(***************************************************************************)
(* Orders and their lines (SpecOrder)                                      *)
(***************************************************************************)
\* C31: every order row the order transaction creates has at least one line
\* row: a request with an empty list of lines creates no order.
C31_EveryOrderHasALine ==
    Returned =>
        /\ \A i \in 1..Len(db.orders) :
              \E k \in 1..Len(db.order_items) : db.order_items[k].order_id = db.orders[i].id
        /\ call.req.items = <<>> => db.orders = call.pre.orders

(***************************************************************************)
(* The errored response and the operations already executed (SpecAgent)    *)
(***************************************************************************)
\* C32: whenever process_request returns the errored response (tools_used
\* empty, tool_results empty, needed_tools = FALSE), no operation of the turn
\* has committed a change to the store or appended a usage record.
C32_ErroredTurnExecutedNothing ==
    turn.pc = "errored" =>
        /\ db = call.pre
        /\ tool_usage_history = <<>>
        /\ \A i \in 1..Len(turn.tool_decisions) : ~InTrace("handler", i)

(***************************************************************************)
(* server/main.py: run_agent                                               *)
(***************************************************************************)
\* Line 96: tool_result.get("result", "No output") of the empty mapping.
NoOutput == Text("", Msg("No output", "", 0, 0))

\* Lines 90-94: next((tr for tr in tool_results if tr.get("tool_name") ==
\* tool_name), {}): the first result that carries the name, {} when none does.
first_result_named(tool_results, tool_name) ==
    IF \E k \in 1..Len(tool_results) : tool_results[k].tool_name = tool_name
    THEN LET k == CHOOSE k \in 1..Len(tool_results) :
                     /\ tool_results[k].tool_name = tool_name
                     /\ \A j \in 1..(k - 1) : tool_results[j].tool_name # tool_name
         IN  [output |-> tool_results[k].result, success |-> tool_results[k].success]
    ELSE [output |-> NoOutput, success |-> FALSE]

\* Lines 83-110: run_agent, given what process_request returned.
run_agent(result) ==
    [message |-> result.final_response,
     tool_calls |-> [i \in 1..Len(result.tools_used) |->
                       LET tool_name   == result.tools_used[i].tool_name
                           tool_result == first_result_named(result.tool_results, tool_name)
                       IN  [tool_name |-> tool_name,
                            input_args |-> result.tools_used[i].parameters,
                            output |-> tool_result.output,
                            success |-> tool_result.success]],
     analysis |-> result.analysis]

\* C33: each tool call that run_agent reports for a turn carries the output
\* and the success flag of its own execution, also when two or more calls of
\* the turn have the same tool name: reported call i is paired with result i.
C33_ReportedCallCarriesOwnResult ==
    turn.pc = "responded" =>
        LET reported == run_agent(turn.response).tool_calls
        IN  /\ Len(reported) = Len(turn.response.tool_results)
            /\ \A i \in 1..Len(reported) :
                  /\ reported[i].tool_name = turn.response.tools_used[i].tool_name
                  /\ reported[i].output = turn.response.tool_results[i].result
                  /\ reported[i].success = turn.response.tool_results[i].success

(***************************************************************************)
(* The kind of value the extraction returns (SpecParse)                    *)
(***************************************************************************)
\* C34: every value _parse_json_response returns is a JSON object or a JSON
\* array: a text that parses as a bare scalar (a number, a string) yields the
\* empty object, never the scalar.
C34_ReturnsObjectOrArrayOnly ==
    extract.pc = "returned" =>
        /\ extract.out.type = "value"
        /\ IsObjectOrArray(extract.out.tokens)
        /\ (/\ json_loads(cleaned_text(extract.text)) # JSONDecodeError
            /\ ~IsObjectOrArray(cleaned_text(extract.text))) => extract.out = EmptyObject

(***************************************************************************)
(* A failure of the synthesis call (SpecAgent)                             *)
(***************************************************************************)
\* C35: when the Completion Service fails during synthesis,
\* generate_final_response returns the fixed apologetic text without raising:
\* the turn does not enter the errored response, and the tools_used and
\* tool_results it returns list every operation executed in the turn.
C35_SynthesisFailureKeepsResults ==
    turn.synthesis = "failed" =>
        /\ turn.pc = "responded"
        /\ turn.exc = ""
        /\ turn.response.final_response = FinalText("apology", "")
        /\ turn.response.tools_used = turn.tool_decisions
        /\ turn.response.tool_results = turn.tool_results
        /\ Len(turn.response.tool_results) = Len(turn.response.tools_used)
        /\ \A i \in 1..Len(turn.tool_decisions) :
              InTrace("handler", i) =>
                 /\ turn.response.tools_used[i] = turn.tool_decisions[i]
                 /\ turn.response.tool_results[i].tool_name = turn.tool_decisions[i].tool_name

\* C35 witness: two handlers ran, the second changed a price, the synthesis
\* call failed, and the response lists both calls and both results.
C35_Witness ==
    /\ turn.synthesis = "failed"
    /\ turn.pc = "responded"
    /\ InTrace("handler", 1) /\ InTrace("handler", 2)
    /\ db # call.pre
    /\ Len(turn.response.tools_used) = 2
    /\ Len(turn.response.tool_results) = 2
    /\ turn.response.final_response.kind = "apology"

(***************************************************************************)
(* server/main.py chat_endpoint: chat requests on connections of their     *)
(* own, interleaved.  The storage layer is the one of the order            *)
(* transactions above: a SELECT reads the committed store; the first       *)
(* INSERT of a scope takes the write lock, which the scope's commit or      *)
(* rollback releases.                                                      *)
(***************************************************************************)
\* Line 316: the title a session is created with; lines 365-369: the title
\* taken from the first message.
NewConversation == "New Conversation"
TitleFromMessage == "title from message"

UserMessagesOf(d, session_id) ==
    { k \in 1..Len(d.messages) :
         d.messages[k].session_id = session_id /\ d.messages[k].role = "user" }

\* Lines 312-325: the writes of step 1, on the committed store d.
save_user_message(d, p, session_id, found) ==
    [d EXCEPT !.sessions[session_id] = IF found THEN @ ELSE NewConversation,
              !.messages = Append(@, [id |-> Len(@) + 1, session_id |-> session_id,
                                      role |-> "user", request |-> p])]

RECURSIVE save_tool_calls(_, _, _, _, _)
save_tool_calls(d, p, session_id, message_id, n) ==
    IF n = 0 THEN d
    ELSE [save_tool_calls(d, p, session_id, message_id, n - 1) EXCEPT
            !.tool_calls = Append(@, [session_id |-> session_id, message_id |-> message_id,
                                      request |-> p])]

\* Lines 332-369: the writes of step 3, on the committed store d.
save_assistant_message(d, p, session_id, n) ==
    LET message_id == Len(d.messages) + 1
        saved == [d EXCEPT !.messages = Append(@, [id |-> message_id,
                                                   session_id |-> session_id,
                                                   role |-> "assistant", request |-> p])]
        logged == save_tool_calls(saved, p, session_id, message_id, n)
    IN  IF Cardinality(UserMessagesOf(logged, session_id)) = 1
        THEN [logged EXCEPT !.sessions[session_id] = TitleFromMessage]
        ELSE logged

\* Lines 375-378: an exception leaves chat_endpoint as HTTP 500.
Fail(p, error) ==
    requests' = [requests EXCEPT ![p].pc = "done", ![p].status = 500, ![p].error = error]

InitSession == InitHistory

\* POST /chat arrives with a session id.
ReqArrive(p) ==
    /\ requests[p].pc = "idle"
    /\ \E session_id \in SessionIds :
          requests' = [requests EXCEPT ![p].pc = "select_session",
                                       ![p].session_id = session_id]
    /\ UNCHANGED <<storeVars, turn, tool_usage_history, trace, extract, views, api, scope, chat>>

\* Lines 313-314: SELECT id FROM sessions, on the committed store.
ReqSelectSession(p) ==
    /\ requests[p].pc = "select_session"
    /\ requests' = [requests EXCEPT ![p].pc = "insert_user",
                                    ![p].found = (db.sessions[requests[p].session_id] # NoSession)]
    /\ UNCHANGED <<storeVars, turn, tool_usage_history, trace, extract, views, api, scope, chat>>

\* Lines 315-324: the first INSERT of step 1 takes the write lock.  The
\* INSERT INTO sessions of a request that found no session fails on the
\* primary key when the session has been committed since (IntegrityError):
\* the scope rolls back and the exception leaves chat_endpoint.
ReqInsertUser(p) ==
    /\ requests[p].pc = "insert_user"
    /\ wlock = 0
    /\ IF ~requests[p].found /\ db.sessions[requests[p].session_id] # NoSession
       THEN Fail(p, "UNIQUE constraint failed: sessions.id") /\ UNCHANGED wlock
       ELSE /\ wlock' = p
            /\ requests' = [requests EXCEPT ![p].pc = "user_written"]
    /\ UNCHANGED <<db, call, txn, turn, tool_usage_history, trace, extract, views, api, scope, chat>>

\* Line 325 and the scope's commit.
ReqCommitUser(p) ==
    /\ requests[p].pc = "user_written"
    /\ wlock = p
    /\ db' = get_db_cursor_exit(db, save_user_message(db, p, requests[p].session_id,
                                                      requests[p].found), FALSE)
    /\ wlock' = 0
    /\ requests' = [requests EXCEPT ![p].pc = "pipeline"]
    /\ UNCHANGED <<call, txn, turn, tool_usage_history, trace, extract, views, api, scope, chat>>

\* Line 328: run_agent returns the message and the tool calls of the turn.
ReqRunAgent(p) ==
    /\ requests[p].pc = "pipeline"
    /\ \E n \in 0..MaxCalls :
          requests' = [requests EXCEPT ![p].pc = "insert_assistant", ![p].tool_calls = n]
    /\ UNCHANGED <<storeVars, turn, tool_usage_history, trace, extract, views, api, scope, chat>>

\* Lines 331-336: the first INSERT of step 3 takes the write lock.
ReqInsertAssistant(p) ==
    /\ requests[p].pc = "insert_assistant"
    /\ wlock = 0
    /\ wlock' = p
    /\ requests' = [requests EXCEPT ![p].pc = "assistant_written"]
    /\ UNCHANGED <<db, call, txn, turn, tool_usage_history, trace, extract, views, api, scope, chat>>

\* Lines 337-373: the tool calls, the title, the scope's commit and the
\* response.
ReqCommitAssistant(p) ==
    /\ requests[p].pc = "assistant_written"
    /\ wlock = p
    /\ db' = get_db_cursor_exit(db, save_assistant_message(db, p, requests[p].session_id,
                                                           requests[p].tool_calls), FALSE)
    /\ wlock' = 0
    /\ requests' = [requests EXCEPT ![p].pc = "done", ![p].status = 200]
    /\ UNCHANGED <<call, txn, turn, tool_usage_history, trace, extract, views, api, scope, chat>>

\* An INSERT finds the write lock taken until the busy timeout runs out:
\* OperationalError, HTTP 500.
ReqLockTimeout(p) ==
    /\ requests[p].pc \in {"insert_user", "insert_assistant"}
    /\ wlock \notin {0, p}
    /\ Fail(p, "database is locked")
    /\ UNCHANGED <<storeVars, turn, tool_usage_history, trace, extract, views, api, scope, chat>>

NextSession ==
    \E p \in Procs :
        \/ ReqArrive(p)
        \/ ReqSelectSession(p)
        \/ ReqInsertUser(p)
        \/ ReqCommitUser(p)
        \/ ReqRunAgent(p)
        \/ ReqInsertAssistant(p)
        \/ ReqCommitAssistant(p)
        \/ ReqLockTimeout(p)

SpecSession == InitSession /\ [][NextSession]_vars

\* The rows request p has committed.
MessagesOf(p, role) ==
    { k \in 1..Len(db.messages) : db.messages[k].request = p /\ db.messages[k].role = role }

ToolCallsOf(p) == { k \in 1..Len(db.tool_calls) : db.tool_calls[k].request = p }

\* Request p returned normally, with its effects: the session exists, one
\* user message and one assistant message were added to it, and the tool
\* calls of the turn are stored with the assistant message.
CompletedWithEffects(p) ==
    /\ requests[p].pc = "done"
    /\ requests[p].status = 200
    /\ db.sessions[requests[p].session_id] # NoSession
    /\ Cardinality(MessagesOf(p, "user")) = 1
    /\ Cardinality(MessagesOf(p, "assistant")) = 1
    /\ Cardinality(ToolCallsOf(p)) = requests[p].tool_calls
    /\ \A k \in ToolCallsOf(p) : db.tool_calls[k].message_id \in MessagesOf(p, "assistant")

\* C36: for every chat request that returns normally the session exists
\* afterwards and exactly one user message and one assistant message were
\* added to it; the user message is committed before the pipeline starts, the
\* assistant message and the tool-call records are committed together after
\* the pipeline has returned; and two concurrent chat requests for one session
\* that did not exist yet both complete with these effects (a request that
\* the storage layer's lock timeout ended is not counted).
C36_ChatRequestEffects ==
    /\ \A p \in Procs :
          /\ (requests[p].pc = "done" /\ requests[p].status = 200) => CompletedWithEffects(p)
          /\ requests[p].pc \in {"pipeline", "insert_assistant", "assistant_written"} =>
                /\ Cardinality(MessagesOf(p, "user")) = 1
                /\ MessagesOf(p, "assistant") = {}
                /\ ToolCallsOf(p) = {}
    /\ ( /\ \A p \in Procs : requests[p].pc = "done" /\ requests[p].error # "database is locked"
         /\ \A p, q \in Procs : requests[p].session_id = requests[q].session_id )
       => \A p \in Procs : CompletedWithEffects(p)

====
